---------------------------- MODULE Spec2Model ----------------------------
(***************************************************************************)
(* Model of rust-terminal: the launcher (main), the render/input loop      *)
(* (App::run) with its key and mouse handlers, the emulator I/O thread and *)
(* the signal thread.                                                      *)
(*                                                                         *)
(* Source: src/rust-terminal/src/main.rs, src/rust-terminal/src/terminal.rs*)
(***************************************************************************)
EXTENDS Integers, Sequences, FiniteSets, TLC

(***************************************************************************)
(* Program constants                                                       *)
(***************************************************************************)
\* TerminalBounds::default().num_lines: the emulator grid is created with
\* this many screen lines and the program never resizes it, so every
\* snapshot (get_renderable_content) has exactly this many rows.
NumLines == 24

\* TerminalBounds::default().num_cols: the columns of the emulator grid.
NumCols == 80

\* Wheel scrolling moves the view by this many rows.
ScrollStep == 3

(***************************************************************************)
(* Bounds of the model                                                     *)
(***************************************************************************)
\* Width of the host terminal (columns).  Wide enough that the horizontal
\* layout [Min(10), Length(1)] inside a margin of 1 is satisfiable.
HostWidth == 14

\* Heights the host terminal can take (rows); the user resizes between them.
\* visible rows = height - 4 (margin and border), so the first leaves the
\* 24-row snapshot scrollable (by one wheel step) and the second shows it
\* whole.
SmallHostHeight == 25
TallHostHeight == 30

\* Largest host column / row a mouse event is reported at near the pane's
\* top-left corner.
MaxMouseCol == 3
MaxMouseRow == 3

\* Largest row / column of the ends of a selection given to
\* normalize_selection on its own.
MaxSelRow == 2
MaxSelCol == 2

\* Most characters given to one HangulComposer before it is flushed or read.
MaxJamo == 3

\* Most rows of a snapshot given to copy_selected_text on its own.
MaxCopyRows == 2

\* Longest snapshot row given to render_line_with_selection on its own:
\* longer than the last selected column.
MaxLineLen == 4

\* Width of the host terminal after the user has widened it, and the host
\* column of a mouse event near the right edge of the widened pane: an
\* interior column of the wide pane only.
WideHostWidth == 16
RightMouseCol == 12

\* Host row of a mouse event low in the pane: inside the pane of the tall
\* host terminal only, below the last of the snapshot's 24 rows.
LowMouseRow == 27

HostHeights == {SmallHostHeight, TallHostHeight}

\* Rows of a host terminal too low for a pane: the layout has nothing to
\* give and the pane is the empty rectangle at the origin.
FlatHostHeight == 1

\* Host cells a mouse event can be reported at: the pane's top-left border
\* cell, an interior cell near it and an interior cell low in the pane.
MousePoints == {<<1, 1>>, <<MaxMouseCol, MaxMouseRow>>, <<2, LowMouseRow>>}

(***************************************************************************)
(* Integer helpers (u16 / usize arithmetic of the source)                  *)
(***************************************************************************)
Min(a, b) == IF a <= b THEN a ELSE b

Max(a, b) == IF a >= b THEN a ELSE b

\* u16::saturating_sub / usize::saturating_sub
SatSub(a, b) == IF a >= b THEN a - b ELSE 0

\* wrapping u16 arithmetic (release build)
U16(x) == x % 65536

(***************************************************************************)
(* Byte strings handed to Terminal::input                                  *)
(***************************************************************************)
ESC == 27

RECURSIVE DecDigits(_)
\* format!("{}", n) for an unsigned integer: its decimal digits as ASCII.
DecDigits(n) ==
    IF n < 10 THEN <<48 + n>>
    ELSE DecDigits(n \div 10) \o <<48 + (n % 10)>>

\* char::encode_utf8
Utf8(cp) ==
    IF cp < 128 THEN <<cp>>
    ELSE IF cp < 2048 THEN <<192 + (cp \div 64), 128 + (cp % 64)>>
    ELSE IF cp < 65536 THEN
        <<224 + (cp \div 4096), 128 + ((cp \div 64) % 64), 128 + (cp % 64)>>
    ELSE <<240 + (cp \div 262144), 128 + ((cp \div 4096) % 64),
           128 + ((cp \div 64) % 64), 128 + (cp % 64)>>

\* format!("\x1b[{};{}H", terminal_row + 1, terminal_col + 1)
CursorEscape(terminal_col, terminal_row) ==
    <<ESC, 91>> \o DecDigits(terminal_row + 1) \o <<59>>
        \o DecDigits(terminal_col + 1) \o <<72>>

(***************************************************************************)
(* Events read from the host (crossterm)                                   *)
(***************************************************************************)
\* Code points typed in the model: 'z' and a Hangul syllable (three bytes
\* in UTF-8).
CharZ == 122

\* The Hangul syllable U+D55C: three bytes in UTF-8, two cells wide in the
\* grid.
Syllable == 54620

Chars == {CharZ, 54620}

Keys ==
    [code : {"Char"}, ch : Chars, ctrl : BOOLEAN]
    \cup [code : {"Enter", "Backspace", "Tab", "Esc", "Up", "Down", "Right",
                  "Left", "PageUp", "PageDown", "F1"},
          ch : {0}, ctrl : {FALSE}]
    \cup [code : {"Home", "End"}, ch : {0}, ctrl : BOOLEAN]

MouseKinds ==
    {"DownLeft", "UpLeft", "DownRight", "UpRight", "DragLeft", "Moved",
     "ScrollDown", "ScrollUp"}

\* No event was read in this iteration (the poll timed out).
NoEvent == [type |-> "none"]

KeyEvent(key) == [type |-> "key", key |-> key]

MouseEventAt(kind, col, row) ==
    [type |-> "mouse", kind |-> kind, column |-> col, row |-> row]

(***************************************************************************)
(* What the emulator and the clipboard return                              *)
(***************************************************************************)
\* Terminal::get_renderable_content on a grid nothing has been written to:
\* NumLines rows of NumCols spaces (an empty cell holds ' ').
BlankSnapshot == [r \in 1..NumLines |-> [i \in 1..NumCols |-> 32]]

\* Terminal::get_renderable_content on a grid full of narrow characters:
\* the capital letter in a cell tells its row and its column apart from
\* those of its neighbours.
TextSnapshot ==
    [r \in 1..NumLines |-> [i \in 1..NumCols |-> 65 + ((7 * r + i) % 26)]]

\* The grid contents a call of get_renderable_content can find.
Snapshots == {BlankSnapshot, TextSnapshot}

\* How the clipboard behaves in one call of copy_selected_text:
\* Clipboard::new() fails, or it succeeds and set_text fails or succeeds.
ClipboardOutcomes == {"unavailable", "write_err", "ok"}

(***************************************************************************)
(* State                                                                   *)
(***************************************************************************)
VARIABLES
    pc,                 \* position of the main thread in main / App::run
    raw_mode,           \* host terminal: raw mode enabled
    alt_screen,         \* host terminal: alternate screen entered
    mouse_capture,      \* host terminal: mouse capture enabled
    app_result,         \* main: app_result
    restore_result,     \* main: restore_result
    restore_done,       \* main: restoration steps that completed
    exit_result,        \* what main returned
    should_quit,        \* App.should_quit
    text_selection,     \* App.text_selection
    is_dragging,        \* App.is_dragging
    shutdown_signal,    \* the shared AtomicBool
    terminal_area,      \* App.terminal_area
    scroll_offset,      \* App.scroll_offset
    total_lines,        \* App.total_lines
    quit_confirm_count, \* App.quit_confirm_count
    title_quit_status,  \* last frame drawn: title carries the quit banner
    event,              \* the event read in the current iteration
    input_calls,        \* Terminal::input calls of the current iteration
    input_results,      \* ... and what each of them returned: "Ok" | "Err"
    handler_result,     \* what the handler of the current iteration's event
                        \* returned: "none" (no handler ran) | "Ok" | "Err"
    lines_read,         \* what get_renderable_content returned to
                        \* copy_selected_text in the current iteration,
                        \* or None
    clipboard_new,      \* arboard::Clipboard::new() in the current iteration:
                        \* "none" (not called) | "ok" | "err"
    clipboard_calls,    \* Clipboard::set_text calls of the current iteration
    io_alive,           \* emulator I/O thread still running
    mouse_mode,         \* emulator: a mouse reporting mode is set
    events_rx,          \* Event Bridge receiver: "held" | "dropped"
    fn_args,            \* a function applied on its own: its arguments
    fn_ret,             \* ... and what it returned
    term_lock,          \* holder of the grid mutex (Terminal.term):
                        \* "free" | "ui" | "io"
    io_pc               \* position of the emulator I/O thread with respect
                        \* to the grid mutex; "none" where it is not followed

vars ==
    <<pc, raw_mode, alt_screen, mouse_capture, app_result, restore_result,
      restore_done,
      exit_result, should_quit, text_selection, is_dragging,
      shutdown_signal, terminal_area, scroll_offset, total_lines,
      quit_confirm_count, title_quit_status, event, input_calls,
      input_results, handler_result, lines_read, clipboard_new, clipboard_calls, io_alive, mouse_mode,
      events_rx, fn_args, fn_ret, term_lock, io_pc>>

hostVars == <<raw_mode, alt_screen, mouse_capture>>

appVars ==
    <<should_quit, text_selection, is_dragging, terminal_area, scroll_offset,
      total_lines, quit_confirm_count>>

mainVars == <<app_result, restore_result, restore_done, exit_result>>

envVars == <<shutdown_signal, io_alive, mouse_mode>>

fnVars == <<fn_args, fn_ret>>

lockVars == <<term_lock, io_pc>>

iterVars ==
    <<event, input_calls, input_results, handler_result, lines_read,
      clipboard_new, clipboard_calls>>

\* Rect::default()
RectDefault == [x |-> 0, y |-> 0, width |-> 0, height |-> 0]

\* TextSelection::default()
TextSelectionDefault ==
    [start_row |-> 0, start_col |-> 0, end_row |-> 0, end_col |-> 0,
     is_active |-> FALSE]

\* Nothing has run yet: the process state before main's first statement.
ProcessStart ==
    /\ raw_mode = FALSE
    /\ alt_screen = FALSE
    /\ mouse_capture = FALSE
    /\ app_result = "none"
    /\ restore_result = "none"
    /\ restore_done = {}
    /\ exit_result = "none"
    /\ should_quit = FALSE
    /\ text_selection = TextSelectionDefault
    /\ is_dragging = FALSE
    /\ shutdown_signal = FALSE
    /\ terminal_area = RectDefault
    /\ scroll_offset = 0
    /\ total_lines = 0
    /\ quit_confirm_count = 0
    /\ title_quit_status = FALSE
    /\ event = NoEvent
    /\ input_calls = <<>>
    /\ input_results = <<>>
    /\ handler_result = "none"
    /\ lines_read = <<>>
    /\ clipboard_new = "none"
    /\ clipboard_calls = <<>>
    /\ io_alive = FALSE
    /\ mouse_mode = FALSE
    /\ events_rx = "held"
    /\ term_lock = "free"
    /\ io_pc = "none"

Init ==
    /\ pc = "enable_raw"
    /\ ProcessStart
    /\ fn_args = <<>>
    /\ fn_ret = <<>>


(***************************************************************************)
(* Snapshot of the emulator grid (Terminal::get_renderable_content).  A    *)
(* cell is [c, wide, spacer]: its character and its WIDE_CHAR and          *)
(* WIDE_CHAR_SPACER flags.                                                 *)
(***************************************************************************)
RECURSIVE LineContent_SpacersKept(_, _)
\* Mutant of LineContent: every cell's character is pushed and no cell is
\* stepped over.
LineContent_SpacersKept(line, col_index) ==
    IF col_index >= Len(line) THEN <<>>
    ELSE <<line[col_index + 1].c>>
             \o LineContent_SpacersKept(line, col_index + 1)

RECURSIVE LineContent(_, _)
\* The while loop of get_renderable_content over one grid line, from
\* column col_index on: the characters pushed to line_content.
LineContent(line, col_index) ==
    IF col_index >= Len(line) THEN <<>>
    ELSE LET cell == line[col_index + 1]
             ch == cell.c
             pushed == IF (ch # 0 /\ ch # 32) \/ ~cell.spacer
                       THEN <<ch>> ELSE <<>>
         IN  pushed \o LineContent(line, IF cell.wide THEN col_index + 2
                                                      ELSE col_index + 1)

\* Terminal::get_renderable_content: one string per screen line.
get_renderable_content(grid) ==
    [line_index \in 1..Len(grid) |-> LineContent(grid[line_index], 0)]

(***************************************************************************)
(* Layout of a frame (App::run, inside the draw closure)                   *)
(***************************************************************************)
\* Layout::default().direction(Horizontal).margin(1)
\*     .constraints([Min(10), Length(1)]).split(f.area())[0]
\* for a host area (0, 0, w, h): the margin removes one cell on every side
\* (an area too small for the margin collapses to Rect::default()), and the
\* last column of what is left goes to the scrollbar.
Layout(w, h) ==
    IF w < 2 \/ h < 2 THEN RectDefault
    ELSE [x |-> 1, y |-> 1, width |-> SatSub(w - 2, 1), height |-> h - 2]

\* self.terminal_area.height.saturating_sub(2)
VisibleLines(area) == SatSub(area.height, 2)

\* self.total_lines.saturating_sub(visible_lines) as u16
MaxScroll(total, area) == U16(SatSub(total, VisibleLines(area)))

(***************************************************************************)
(* Coordinate mapping                                                      *)
(***************************************************************************)
None == <<>>

\* Mutant of mouse_to_terminal_coords: the left and top border cells are
\* taken for interior cells.
mouse_to_terminal_coords_BorderInside(area, offset, mouse_col, mouse_row) ==
    LET area_right == U16(area.x + area.width)
        area_bottom == U16(area.y + area.height)
        terminal_col == SatSub(mouse_col, area.x + 1)
        relative_terminal_row == SatSub(mouse_row, area.y + 1)
    IN  IF \/ mouse_col < area.x
           \/ mouse_col >= U16(area_right - 1)
           \/ mouse_row < area.y
           \/ mouse_row >= U16(area_bottom - 1)
        THEN None
        ELSE IF terminal_col < SatSub(area.width, 2)
                /\ relative_terminal_row < SatSub(area.height, 2)
             THEN <<terminal_col, U16(relative_terminal_row + offset)>>
             ELSE None

\* App::mouse_to_terminal_coords: None, or <<terminal_col, terminal_row>>.
mouse_to_terminal_coords(area, offset, mouse_col, mouse_row) ==
    LET area_left == area.x
        area_top == area.y
        area_right == U16(area.x + area.width)
        area_bottom == U16(area.y + area.height)
        terminal_col == SatSub(mouse_col, area_left + 1)
        relative_terminal_row == SatSub(mouse_row, area_top + 1)
        terminal_row == U16(relative_terminal_row + offset)
        inner_width == SatSub(area.width, 2)
        inner_height == SatSub(area.height, 2)
    IN  IF \/ mouse_col <= area_left
           \/ mouse_col >= U16(area_right - 1)
           \/ mouse_row <= area_top
           \/ mouse_row >= U16(area_bottom - 1)
        THEN None
        ELSE IF terminal_col < inner_width
                /\ relative_terminal_row < inner_height
             THEN <<terminal_col, terminal_row>>
             ELSE None

\* Mutant of set_terminal_cursor_position: a cursor row below the last
\* visible row is not hidden.
\* Whether a call of mouse_to_terminal_coords computes a value outside
\* u16 with `+` or `-` (a panic where overflow is checked, a wrapped value
\* where it is not).  The operands of `||` are evaluated from the left up
\* to the first that is true; saturating_sub itself cannot leave the range.
mouse_to_terminal_coords_Wraps(area, offset, mouse_col, mouse_row) ==
    LET area_left == area.x
        area_top == area.y
        area_right == U16(area.x + area.width)
        area_bottom == U16(area.y + area.height)
        left_of == mouse_col <= area_left
        right_of == mouse_col >= U16(area_right - 1)
        above == mouse_row <= area_top
        below == mouse_row >= U16(area_bottom - 1)
        relative_terminal_row == SatSub(mouse_row, U16(area_top + 1))
    IN  \/ area.x + area.width > 65535
        \/ area.y + area.height > 65535
        \/ ~left_of /\ area_right - 1 < 0
        \/ ~left_of /\ ~right_of /\ ~above /\ area_bottom - 1 < 0
        \/ /\ ~left_of /\ ~right_of /\ ~above /\ ~below
           /\ \/ area_left + 1 > 65535
              \/ area_top + 1 > 65535
              \/ relative_terminal_row + offset > 65535

set_terminal_cursor_position_NoLowerEdge(area, offset, cursor_col, cursor_row) ==
    IF cursor_row >= offset
    THEN <<U16(area.x + 1 + cursor_col),
           U16(area.y + 1 + (cursor_row - offset))>>
    ELSE <<0, 0>>

\* Mutant of set_terminal_cursor_position: the caret is placed without the
\* border offset.
set_terminal_cursor_position_NoBorder(area, offset, cursor_col, cursor_row) ==
    IF cursor_row >= offset /\ cursor_row - offset < SatSub(area.height, 2)
    THEN <<U16(area.x + cursor_col), U16(area.y + (cursor_row - offset))>>
    ELSE <<0, 0>>

\* App::set_terminal_cursor_position: the host cell <<cursor_x, cursor_y>>
\* handed to f.set_cursor_position for the grid cell (cursor_col,
\* cursor_row); <<0, 0>> when the row is scrolled out of the pane.
set_terminal_cursor_position(area, offset, cursor_col, cursor_row) ==
    IF cursor_row >= offset
    THEN LET relative_cursor_row == cursor_row - offset
             visible_height == SatSub(area.height, 2)
         IN  IF relative_cursor_row < visible_height
             THEN LET cursor_x == U16(area.x + 1 + cursor_col)
                      cursor_y == U16(area.y + 1 + relative_cursor_row)
                  IN  <<cursor_x, cursor_y>>
             ELSE <<0, 0>>
    ELSE <<0, 0>>

(***************************************************************************)
(* Mouse reports                                                           *)
(***************************************************************************)
\* wrapping u8 arithmetic (release build)
U8(x) == x % 256

\* u16::saturating_add
SatAdd16(a, b) == Min(a + b, 65535)

\* App::send_mouse_event: the bytes it passes to Terminal::input.  Each of
\* the three values becomes a char and format! writes a char in UTF-8.
send_mouse_event(button, col, row) ==
    LET button_char == U8(button + 32)
        col_char == U8(Min(SatAdd16(col, 32), 255))
        row_char == U8(Min(SatAdd16(row, 32), 255))
    IN  <<ESC, 91, 77>> \o Utf8(button_char) \o Utf8(col_char)
            \o Utf8(row_char)

(***************************************************************************)
(* Selection engine.  Each operator maps the selection state before the    *)
(* call, sel = text_selection and drag = is_dragging, to the state after.  *)
(***************************************************************************)
\* Mutant of start_text_selection: the drag flag of an earlier gesture is
\* not reset.
start_text_selection_KeepDrag(sel, drag, area, offset, col, row) ==
    LET c == mouse_to_terminal_coords(area, offset, col, row)
    IN  IF c # None
        THEN [sel |-> [start_row |-> c[2], start_col |-> c[1],
                       end_row |-> c[2], end_col |-> c[1],
                       is_active |-> TRUE],
              drag |-> drag]
        ELSE [sel |-> sel, drag |-> drag]

\* App::start_text_selection
start_text_selection(sel, drag, area, offset, col, row) ==
    LET c == mouse_to_terminal_coords(area, offset, col, row)
    IN  IF c # None
        THEN [sel |-> [start_row |-> c[2], start_col |-> c[1],
                       end_row |-> c[2], end_col |-> c[1],
                       is_active |-> TRUE],
              drag |-> FALSE]
        ELSE [sel |-> sel, drag |-> drag]

\* Mutant of update_text_selection: the new point is stored in the start
\* fields instead of the end fields.
update_text_selection_MoveAnchor(sel, drag, area, offset, col, row) ==
    LET c == mouse_to_terminal_coords(area, offset, col, row)
    IN  IF sel.is_active /\ c # None
        THEN [sel |-> [sel EXCEPT !.start_row = c[2], !.start_col = c[1]],
              drag |-> drag]
        ELSE [sel |-> sel, drag |-> drag]

\* App::update_text_selection
update_text_selection(sel, drag, area, offset, col, row) ==
    LET c == mouse_to_terminal_coords(area, offset, col, row)
    IN  IF sel.is_active /\ c # None
        THEN [sel |-> [sel EXCEPT !.end_row = c[2], !.end_col = c[1]],
              drag |-> drag]
        ELSE [sel |-> sel, drag |-> drag]

\* App::finish_text_selection
finish_text_selection(sel, drag, area, offset, col, row) ==
    LET c == mouse_to_terminal_coords(area, offset, col, row)
    IN  IF drag
        THEN [sel |-> IF c # None
                      THEN [sel EXCEPT !.end_row = c[2], !.end_col = c[1]]
                      ELSE sel,
              drag |-> FALSE]
        ELSE [sel |-> sel, drag |-> drag]

\* Mutant of normalize_selection: the ends are never exchanged.
normalize_selection_NoSwap(sel) ==
    <<sel.start_row, sel.start_col, sel.end_row, sel.end_col>>

\* Mutant of normalize_selection: the ends are exchanged by row only; two
\* ends on one row are left as they are.
normalize_selection_RowsOnly(sel) ==
    IF sel.start_row > sel.end_row
    THEN <<sel.end_row, sel.end_col, sel.start_row, sel.start_col>>
    ELSE <<sel.start_row, sel.start_col, sel.end_row, sel.end_col>>

\* App::normalize_selection: (start_row, start_col, end_row, end_col)
normalize_selection(sel) ==
    IF \/ sel.start_row > sel.end_row
       \/ (sel.start_row = sel.end_row /\ sel.start_col > sel.end_col)
    THEN <<sel.end_row, sel.end_col, sel.start_row, sel.start_col>>
    ELSE <<sel.start_row, sel.start_col, sel.end_row, sel.end_col>>

\* start_pos of copy_selected_text for one row; n is the normalized
\* selection.
StartPos(row, n) == IF row = n[1] THEN n[2] ELSE 0

\* end_pos of copy_selected_text for one row
EndPos(line_chars, row, n) ==
    IF row = n[3] THEN Min(n[4] + 1, Len(line_chars)) ELSE Len(line_chars)

\* Mutant of SelectedPart: the end column of the last row is left out.
SelectedPart_EndExclusive(line_chars, row, n) ==
    LET start_pos == IF row = n[1] THEN n[2] ELSE 0
        end_pos == IF row = n[3] THEN Min(n[4], Len(line_chars))
                   ELSE Len(line_chars)
    IN  (IF start_pos < Len(line_chars)
         THEN SubSeq(line_chars, start_pos + 1, end_pos)
         ELSE <<>>)
        \o (IF row < n[3] THEN <<10>> ELSE <<>>)

\* The part of one row that copy_selected_text appends: line_chars
\* [start_pos .. end_pos], and '\n' after every row but the last.
SelectedPart(line_chars, row, n) ==
    LET start_pos == StartPos(row, n)
        end_pos == EndPos(line_chars, row, n)
    IN  (IF start_pos < Len(line_chars)
         THEN SubSeq(line_chars, start_pos + 1, end_pos)
         ELSE <<>>)
        \o (IF row < n[3] THEN <<10>> ELSE <<>>)

RECURSIVE SelectedFrom(_, _, _)
\* The loop `for row in start_row..=end_row` of copy_selected_text, from
\* `row` on: a row the snapshot does not have (lines.get(row) is None)
\* appends nothing, not even the '\n'.
SelectedFrom(lines, n, row) ==
    IF row > n[3] THEN <<>>
    ELSE (IF row < Len(lines) THEN SelectedPart(lines[row + 1], row, n)
          ELSE <<>>)
         \o SelectedFrom(lines, n, row + 1)

\* selected_text of copy_selected_text
SelectedText(sel, lines) ==
    LET n == normalize_selection(sel) IN SelectedFrom(lines, n, n[1])

\* char::is_whitespace
WhiteSpace ==
    (9..13) \cup {32, 133, 160, 5760} \cup (8192..8202)
        \cup {8232, 8233, 8239, 8287, 12288}

\* selected_text.trim().is_empty()
TrimIsEmpty(text) == \A i \in 1..Len(text) : text[i] \in WhiteSpace

\* What copy_selected_text reads and what it does with the clipboard:
\* nothing for an inactive selection; for an active one the snapshot is
\* read, and unless the text is empty after trim(),
\* Clipboard::new(), and set_text(selected_text) if that succeeded.  The
\* result of set_text is discarded.
ClipboardAfterCopy(sel, lines, clip) ==
    IF ~sel.is_active
    THEN [read |-> <<>>, new |-> "none", calls |-> <<>>]
    ELSE IF TrimIsEmpty(SelectedText(sel, lines))
    THEN [read |-> lines, new |-> "none", calls |-> <<>>]
    ELSE IF clip = "unavailable"
    THEN [read |-> lines, new |-> "err", calls |-> <<>>]
    ELSE [read |-> lines, new |-> "ok",
          calls |-> <<SelectedText(sel, lines)>>]

\* Mutant of copy_selected_text: the selection is not cleared.
copy_selected_text_NoClear(sel) == sel

\* App::copy_selected_text, as far as the selection goes: an inactive
\* selection is left alone; an active one is cleared after the copy, and
\* get_renderable_content never returns Err.
copy_selected_text(sel) ==
    IF ~sel.is_active THEN sel ELSE [sel EXCEPT !.is_active = FALSE]

(***************************************************************************)
(* Selection highlighting                                                  *)
(***************************************************************************)
\* Mutant of render_line_with_selection: every row of the range is
\* highlighted whole.
render_line_with_selection_WholeRows(sel, line, row_idx) ==
    LET n == normalize_selection(sel)
    IN  [i \in 1..Len(line) |->
            sel.is_active /\ row_idx >= n[1] /\ row_idx <= n[3]]

\* App::render_line_with_selection: for each character of the line, whether
\* its span is styled with foreground and background swapped (fg Black on
\* bg White) rather than plain (fg White).
render_line_with_selection(sel, line, row_idx) ==
    IF ~sel.is_active THEN [i \in 1..Len(line) |-> FALSE]
    ELSE
      LET n == normalize_selection(sel)
          start_row == n[1]
          start_col == n[2]
          end_row == n[3]
          end_col == n[4]
          is_selected(col_idx) ==
              IF row_idx = start_row /\ row_idx = end_row
              THEN col_idx >= start_col /\ col_idx <= end_col
              ELSE IF row_idx = start_row THEN col_idx >= start_col
              ELSE IF row_idx = end_row THEN col_idx <= end_col
              ELSE TRUE
      IN  IF row_idx < start_row \/ row_idx > end_row
          THEN [i \in 1..Len(line) |-> FALSE]
          ELSE [i \in 1..Len(line) |-> is_selected(i - 1)]

(***************************************************************************)
(* Terminal::input and the handlers' results                               *)
(***************************************************************************)
\* Terminal::input: the message is sent on the channel to the emulator I/O
\* thread; send fails once that thread has ended and dropped the receiver.
TerminalInput == IF io_alive THEN "Ok" ELSE "Err"

\* What the Terminal::input calls of one handler returned.
InputResults(calls) == [i \in 1..Len(calls) |-> TerminalInput]

\* Mutant of HandlerResult: a failed Terminal::input is returned with `?`.
HandlerResult_Propagate(results) ==
    IF \E i \in 1..Len(results) : results[i] = "Err" THEN "Err" ELSE "Ok"

\* What handle_key_event and handle_mouse_event return: every result of
\* Terminal::input is discarded (`let _ =`) and the handler ends in Ok(()).
HandlerResult(results) == "Ok"

\* self.handle_key_event(key)? / self.handle_mouse_event(mouse)? in
\* App::run: an Err leaves run at once, Ok goes on to the quit check.
AfterHandler ==
    /\ pc' = IF handler_result' = "Ok" THEN "check" ELSE "restore"
    /\ app_result' = IF handler_result' = "Ok" THEN app_result ELSE "run_err"

(***************************************************************************)
(* Key handling                                                            *)
(***************************************************************************)
\* Mutant of KeyBytes: Enter sends a line feed.
KeyBytes_EnterLf(key) ==
    CASE key.code = "Char" -> Utf8(key.ch)
      [] key.code = "Enter" -> <<10>>
      [] key.code = "Backspace" -> <<127>>
      [] key.code = "Tab" -> <<9>>
      [] key.code = "Esc" -> <<ESC>>
      [] key.code = "Up" -> <<ESC, 91, 65>>
      [] key.code = "Down" -> <<ESC, 91, 66>>
      [] key.code = "Right" -> <<ESC, 91, 67>>
      [] key.code = "Left" -> <<ESC, 91, 68>>
      [] OTHER -> None

\* The bytes handle_key_event passes to Terminal::input for a key, or None
\* for a key it does not forward.
KeyBytes(key) ==
    CASE key.code = "Char" -> Utf8(key.ch)
      [] key.code = "Enter" -> <<13>>
      [] key.code = "Backspace" -> <<127>>
      [] key.code = "Tab" -> <<9>>
      [] key.code = "Esc" -> <<ESC>>
      [] key.code = "Up" -> <<ESC, 91, 65>>
      [] key.code = "Down" -> <<ESC, 91, 66>>
      [] key.code = "Right" -> <<ESC, 91, 67>>
      [] key.code = "Left" -> <<ESC, 91, 68>>
      [] OTHER -> None

\* KeyCode::Char('z') if key.modifiers.contains(KeyModifiers::CONTROL)
IsQuitChord(key) == key.code = "Char" /\ key.ch = CharZ /\ key.ctrl

\* Mutant of QuitGate: the first press already sets the exit flag.
QuitGate_Immediate ==
    /\ should_quit' = TRUE
    /\ quit_confirm_count' = 1

\* The quit gate: the first match arm of handle_key_event.
QuitGate ==
    IF quit_confirm_count = 0
    THEN /\ quit_confirm_count' = 1
         /\ UNCHANGED should_quit
    ELSE /\ should_quit' = TRUE
         /\ UNCHANGED quit_confirm_count

\* The quit counter after a key other than the quit chord has been handled:
\* no arm of handle_key_event other than the first assigns it.
QuitCountAfterOtherKey == quit_confirm_count

\* scroll_offset after a key: the PageUp, PageDown, Ctrl+Home and Ctrl+End
\* arms; every other key leaves it alone.
ScrollAfterKey(key) ==
    LET page_size == VisibleLines(terminal_area)
        visible_lines == VisibleLines(terminal_area)
        max_scroll == MaxScroll(total_lines, terminal_area)
    IN  CASE key.code = "PageUp" -> SatSub(scroll_offset, page_size)
          [] key.code = "PageDown" ->
                IF total_lines > visible_lines
                THEN Min(U16(scroll_offset + page_size), max_scroll)
                ELSE scroll_offset
          [] key.code = "Home" /\ key.ctrl -> 0
          [] key.code = "End" /\ key.ctrl ->
                IF total_lines > visible_lines THEN max_scroll
                ELSE scroll_offset
          [] OTHER -> scroll_offset

\* App::handle_key_event
handle_key_event(key) ==
    IF IsQuitChord(key)
    THEN /\ QuitGate
         /\ input_calls' = <<>>
         /\ input_results' = <<>>
         /\ handler_result' = "Ok"
         /\ UNCHANGED <<scroll_offset, text_selection, is_dragging,
                        lines_read, clipboard_new, clipboard_calls>>
    ELSE /\ quit_confirm_count' = QuitCountAfterOtherKey
         /\ UNCHANGED should_quit
         /\ scroll_offset' = ScrollAfterKey(key)
         /\ input_calls' =
                IF KeyBytes(key) # None THEN <<KeyBytes(key)>> ELSE <<>>
         /\ input_results' = InputResults(input_calls')
         /\ handler_result' = HandlerResult(input_results')
         /\ UNCHANGED <<text_selection, is_dragging, lines_read,
                        clipboard_new, clipboard_calls>>

(***************************************************************************)
(* Mouse handling                                                          *)
(***************************************************************************)
\* Mutant of ScrollAfterWheel: the wheel-down step is not clamped.
ScrollAfterWheel_NoClamp(kind) ==
    IF kind = "ScrollDown"
    THEN U16(scroll_offset + ScrollStep)
    ELSE SatSub(scroll_offset, ScrollStep)

\* scroll_offset after a wheel event: the ScrollDown and ScrollUp arms of
\* handle_mouse_event.  Neither looks at the emulator's mouse mode.
ScrollAfterWheel(kind) ==
    LET visible_lines == VisibleLines(terminal_area)
        max_scroll == MaxScroll(total_lines, terminal_area)
    IN  IF kind = "ScrollDown"
        THEN IF total_lines > visible_lines /\ scroll_offset < max_scroll
             THEN Min(U16(scroll_offset + ScrollStep), max_scroll)
             ELSE scroll_offset
        ELSE IF scroll_offset > 0
             THEN SatSub(scroll_offset, ScrollStep)
             ELSE scroll_offset

\* The selection state after a left button release (the Up(Left) arm).
SelectionAfterUp(col, row) ==
    IF is_dragging
    THEN LET f == finish_text_selection(text_selection, is_dragging,
                                        terminal_area, scroll_offset, col, row)
         IN  [sel |-> copy_selected_text(f.sel), drag |-> f.drag]
    ELSE IF text_selection.is_active
    THEN LET f == finish_text_selection(text_selection, is_dragging,
                                        terminal_area, scroll_offset, col, row)
         IN  [sel |-> copy_selected_text(f.sel), drag |-> f.drag]
    ELSE [sel |-> text_selection, drag |-> is_dragging]

\* What a left button release does with the clipboard: both branches that
\* finish a selection end in copy_selected_text.
ClipboardAfterUp(col, row, lines, clip) ==
    IF is_dragging \/ text_selection.is_active
    THEN LET f == finish_text_selection(text_selection, is_dragging,
                                        terminal_area, scroll_offset, col, row)
         IN  ClipboardAfterCopy(f.sel, lines, clip)
    ELSE [read |-> <<>>, new |-> "none", calls |-> <<>>]

\* What a left button release passes to Terminal::input: the cursor-position
\* escape, in the last branch of the Up(Left) arm only.
InputAfterUp(col, row) ==
    LET c == mouse_to_terminal_coords(terminal_area, scroll_offset, col, row)
    IN  IF ~is_dragging /\ ~text_selection.is_active /\ c # None
        THEN <<CursorEscape(c[1], c[2])>>
        ELSE <<>>

\* The selection state after a Drag(Left) event.
SelectionAfterDrag(col, row) ==
    update_text_selection(text_selection, TRUE, terminal_area, scroll_offset,
                          col, row)

\* The selection state after a Moved event.
SelectionAfterMoved(col, row) ==
    IF is_dragging /\ text_selection.is_active
    THEN update_text_selection(text_selection, is_dragging, terminal_area,
                               scroll_offset, col, row)
    ELSE [sel |-> text_selection, drag |-> is_dragging]

\* App::handle_mouse_event; `lines` is what get_renderable_content returns
\* and `clip` how the clipboard behaves, should the handler come to them.
handle_mouse_event(kind, col, row, lines, clip) ==
    LET clipboard ==
            IF kind = "UpLeft" THEN ClipboardAfterUp(col, row, lines, clip)
            ELSE [read |-> <<>>, new |-> "none", calls |-> <<>>]
        after ==
            CASE kind = "DownLeft" ->
                    start_text_selection(text_selection, is_dragging,
                                         terminal_area, scroll_offset, col, row)
              [] kind = "UpLeft" -> SelectionAfterUp(col, row)
              [] kind = "DragLeft" -> SelectionAfterDrag(col, row)
              [] kind = "Moved" -> SelectionAfterMoved(col, row)
              [] OTHER -> [sel |-> text_selection, drag |-> is_dragging]
    IN  /\ text_selection' = after.sel
        /\ is_dragging' = after.drag
        /\ scroll_offset' =
               IF kind \in {"ScrollDown", "ScrollUp"}
               THEN ScrollAfterWheel(kind)
               ELSE scroll_offset
        /\ input_calls' =
               IF kind = "UpLeft" THEN InputAfterUp(col, row) ELSE <<>>
        /\ input_results' = InputResults(input_calls')
        /\ handler_result' = HandlerResult(input_results')
        /\ lines_read' = clipboard.read
        /\ clipboard_new' = clipboard.new
        /\ clipboard_calls' = clipboard.calls
        /\ UNCHANGED <<should_quit, quit_confirm_count>>

(***************************************************************************)
(* The launcher: main, up to the UI loop                                   *)
(***************************************************************************)
LoopPcs == {"draw", "poll", "check"}

\* enable_raw_mode()?
EnableRawMode ==
    /\ pc = "enable_raw"
    /\ \/ /\ raw_mode' = TRUE
          /\ pc' = "execute"
          /\ UNCHANGED exit_result
       \/ /\ pc' = "exited"
          /\ exit_result' = "startup_err"
          /\ UNCHANGED raw_mode
    /\ UNCHANGED <<alt_screen, mouse_capture, app_result, restore_result, restore_done,
                   appVars, envVars, title_quit_status, iterVars, events_rx, fnVars, lockVars>>

\* execute!(stdout, SetTitle(..), EnterAlternateScreen, EnableMouseCapture)?
\* The commands are written in order; an error returns from main at once,
\* whichever commands have already taken effect.
ExecuteSetup ==
    /\ pc = "execute"
    /\ \/ /\ alt_screen' = TRUE
          /\ mouse_capture' = TRUE
          /\ pc' = "backend"
          /\ UNCHANGED exit_result
       \/ /\ alt_screen' \in BOOLEAN
          /\ mouse_capture' = FALSE
          /\ pc' = "exited"
          /\ exit_result' = "startup_err"
    /\ UNCHANGED <<raw_mode, app_result, restore_result, restore_done, appVars, envVars,
                   title_quit_status, iterVars, events_rx, fnVars, lockVars>>

\* RatatuiTerminal::new(backend)?
NewBackend ==
    /\ pc = "backend"
    /\ \/ /\ pc' = "app_new"
          /\ UNCHANGED exit_result
       \/ /\ pc' = "exited"
          /\ exit_result' = "startup_err"
    /\ UNCHANGED <<hostVars, app_result, restore_result, restore_done, appVars, envVars,
                   title_quit_status, iterVars, events_rx, fnVars, lockVars>>

\* App::new(shutdown_signal.clone()): TerminalBuilder::new spawns the shell
\* and the emulator I/O thread; the event receiver returned by build() is
\* bound to _events_rx and dropped when App::new returns.
AppNew ==
    /\ pc = "app_new"
    /\ \/ /\ pc' = "draw"
          /\ io_alive' = TRUE
          /\ events_rx' = "dropped"
          /\ UNCHANGED app_result
       \/ /\ pc' = "restore"
          /\ app_result' = "app_new_err"
          /\ UNCHANGED <<io_alive, events_rx>>
    /\ UNCHANGED <<hostVars, restore_result, restore_done, exit_result, appVars,
                   shutdown_signal, mouse_mode, title_quit_status, iterVars,
                   fnVars, lockVars>>

(***************************************************************************)
(* The UI loop: App::run                                                   *)
(***************************************************************************)
\* scroll_offset after the draw closure has run: the closure stores the
\* pane and the snapshot's length and reads scroll_offset, but never
\* assigns it.
ScrollAfterFrame(area, total) == scroll_offset

\* The draw closure: one frame on a host terminal that is w columns wide
\* and h rows high.
DrawFrameOn(w, h) ==
    LET area == Layout(w, h)
        total == NumLines
    IN  /\ terminal_area' = area
        /\ total_lines' = total
        /\ scroll_offset' = ScrollAfterFrame(area, total)
        /\ title_quit_status' = (quit_confirm_count > 0)
        /\ UNCHANGED <<should_quit, text_selection, is_dragging,
                       quit_confirm_count>>

\* The draw closure on a host terminal of the usual width.
DrawFrame(h) == DrawFrameOn(HostWidth, h)

\* The App is a local of the match arm of main that calls run: when run
\* returns, the arm ends and the App is dropped.
AppDropped ==
    /\ should_quit' = FALSE
    /\ text_selection' = TextSelectionDefault
    /\ is_dragging' = FALSE
    /\ terminal_area' = RectDefault
    /\ scroll_offset' = 0
    /\ total_lines' = 0
    /\ quit_confirm_count' = 0
    /\ title_quit_status' = FALSE
    /\ event' = NoEvent
    /\ input_calls' = <<>>
    /\ input_results' = <<>>
    /\ handler_result' = "none"
    /\ lines_read' = <<>>
    /\ clipboard_new' = "none"
    /\ clipboard_calls' = <<>>

\* ratatui_terminal.draw(..)? succeeding; f.area() is the host terminal's
\* size at that moment, which the user may have changed since the last frame.
Draw ==
    /\ pc = "draw"
    /\ \E h \in HostHeights : DrawFrame(h)
    /\ pc' = "poll"
    /\ UNCHANGED <<hostVars, mainVars, envVars, iterVars, events_rx, fnVars, lockVars>>

\* ratatui_terminal.draw(..)? failing: run returns the error.
DrawError ==
    /\ pc = "draw"
    /\ AppDropped
    /\ pc' = "restore"
    /\ app_result' = "run_err"
    /\ UNCHANGED <<hostVars, restore_result, restore_done, exit_result,
                   envVars, events_rx, fnVars, lockVars>>

\* event::poll(50 ms)? returning false: no event within the timeout (or an
\* event the match ignores: a key release, a resize, a focus change).
PollTimeout ==
    /\ pc = "poll"
    /\ pc' = "check"
    /\ UNCHANGED <<hostVars, mainVars, appVars, envVars, title_quit_status,
                   iterVars, events_rx, fnVars, lockVars>>

\* event::poll(..)? or event::read()? failing.
PollError ==
    /\ pc = "poll"
    /\ AppDropped
    /\ pc' = "restore"
    /\ app_result' = "run_err"
    /\ UNCHANGED <<hostVars, restore_result, restore_done, exit_result,
                   envVars, events_rx, fnVars, lockVars>>

\* Event::Key(key) if key.kind == KeyEventKind::Press
KeyPress(key) ==
    /\ pc = "poll"
    /\ event' = KeyEvent(key)
    /\ handle_key_event(key)
    /\ AfterHandler
    /\ UNCHANGED <<hostVars, restore_result, restore_done, exit_result,
                   envVars, terminal_area, total_lines, title_quit_status,
                   events_rx, fnVars, lockVars>>

\* Event::Mouse(mouse), handled while the emulator grid holds `lines` and
\* the clipboard behaves as `clip`.
MouseEventWith(kind, col, row, lines, clip) ==
    /\ pc = "poll"
    /\ event' = MouseEventAt(kind, col, row)
    /\ handle_mouse_event(kind, col, row, lines, clip)
    /\ AfterHandler
    /\ UNCHANGED <<hostVars, restore_result, restore_done, exit_result,
                   envVars, terminal_area, total_lines, title_quit_status,
                   events_rx, fnVars, lockVars>>

\* Only the Up(Left) arm reads the grid and the clipboard; for every other
\* arm one value stands for all of them.
SnapshotsRead(kind) ==
    IF kind = "UpLeft" THEN Snapshots ELSE {BlankSnapshot}

ClipboardsUsed(kind) ==
    IF kind = "UpLeft" THEN ClipboardOutcomes ELSE {"unavailable"}

\* Event::Mouse(mouse)
MouseEvent(kind, col, row) ==
    \E lines \in SnapshotsRead(kind), clip \in ClipboardsUsed(kind) :
        MouseEventWith(kind, col, row, lines, clip)

\* Mutant of QuitRequested: the shutdown flag is not looked at.
QuitRequested_FlagIgnored == should_quit

\* self.should_quit || self.shutdown_signal.load(Ordering::Relaxed)
QuitRequested == should_quit \/ shutdown_signal

\* if self.should_quit || self.shutdown_signal.load(Relaxed) { break; }
\* Leaving the loop returns Ok(()); otherwise the next iteration begins.
CheckQuit ==
    /\ pc = "check"
    /\ IF QuitRequested
       THEN /\ pc' = "restore"
            /\ app_result' = "ok"
            /\ AppDropped
       ELSE /\ pc' = "draw"
            /\ event' = NoEvent
            /\ input_calls' = <<>>
            /\ input_results' = <<>>
            /\ handler_result' = "none"
            /\ lines_read' = <<>>
            /\ clipboard_new' = "none"
            /\ clipboard_calls' = <<>>
            /\ UNCHANGED <<app_result, appVars, title_quit_status>>
    /\ UNCHANGED <<hostVars, restore_result, restore_done, exit_result,
                   envVars, events_rx, fnVars, lockVars>>

(***************************************************************************)
(* The launcher: terminal restoration                                      *)
(***************************************************************************)
RestoreSteps == <<"raw_mode", "alt_screen", "mouse_capture", "show_cursor">>

\* The steps of the restoration closure that complete when its step number
\* fail_at fails (0: none fails).  Each step is run with `?`, so a failing
\* step skips the ones after it.
RestoreCompleted(fail_at) ==
    IF fail_at = 0 THEN {RestoreSteps[i] : i \in 1..4}
    ELSE {RestoreSteps[i] : i \in 1..(fail_at - 1)}

\* Mutant of MainResult: a failed restoration is returned first.
MainResult_RestoreFirst(restore_failed) ==
    IF restore_failed THEN "restore_err" ELSE app_result

\* What main returns: app_result, whatever restore_result is.
MainResult(restore_failed) == app_result

\* The restoration closure and the end of main.
Restore ==
    /\ pc = "restore"
    /\ \E fail_at \in 0..4 :
          /\ restore_done' = RestoreCompleted(fail_at)
          /\ restore_result' = IF fail_at = 0 THEN "ok" ELSE "err"
          /\ raw_mode' = IF "raw_mode" \in restore_done' THEN FALSE
                         ELSE raw_mode
          /\ alt_screen' = IF "alt_screen" \in restore_done' THEN FALSE
                           ELSE alt_screen
          /\ mouse_capture' = IF "mouse_capture" \in restore_done' THEN FALSE
                              ELSE mouse_capture
          /\ exit_result' = MainResult(fail_at # 0)
    /\ pc' = "exited"
    /\ UNCHANGED <<app_result, appVars, envVars, title_quit_status,
                   iterVars, events_rx, fnVars, lockVars>>

(***************************************************************************)
(* The environment: the emulator I/O thread and the signal thread          *)
(***************************************************************************)
\* The emulator processes shell output that sets or resets a mouse
\* reporting mode.
IoSetMouseMode ==
    /\ pc \in LoopPcs
    /\ io_alive
    /\ mouse_mode' = ~mouse_mode
    /\ UNCHANGED <<pc, hostVars, mainVars, appVars, shutdown_signal,
                   io_alive, title_quit_status, iterVars,
                   events_rx, fnVars, lockVars>>

\* The shell exits: the PTY closes and the I/O thread ends.
IoExit ==
    /\ pc \in LoopPcs
    /\ io_alive
    /\ io_alive' = FALSE
    /\ UNCHANGED <<pc, hostVars, mainVars, appVars, shutdown_signal,
                   mouse_mode, title_quit_status,
                   iterVars, events_rx, fnVars, lockVars>>

\* setup_signal_handlers: the signal thread stores true on SIGINT.
SignalInt ==
    /\ pc # "exited"
    /\ ~shutdown_signal
    /\ shutdown_signal' = TRUE
    /\ UNCHANGED <<pc, hostVars, mainVars, appVars, io_alive,
                   mouse_mode, title_quit_status, iterVars, events_rx, fnVars, lockVars>>

(***************************************************************************)
(* Specifications                                                          *)
(***************************************************************************)
UiStep ==
    \/ Draw
    \/ DrawError
    \/ PollTimeout
    \/ PollError
    \/ \E key \in Keys : KeyPress(key)
    \/ \E kind \in MouseKinds, p \in MousePoints : MouseEvent(kind, p[1], p[2])
    \/ CheckQuit

\* The steps of the main thread: the launcher and the UI loop it runs.
MainThreadStep ==
    \/ EnableRawMode
    \/ ExecuteSetup
    \/ NewBackend
    \/ AppNew
    \/ UiStep
    \/ Restore

Next ==
    \/ MainThreadStep
    \/ IoSetMouseMode
    \/ IoExit
    \/ SignalInt

Spec == Init /\ [][Next]_vars

\* The system with a user who types and clicks only while the shell runs:
\* after the emulator I/O thread has exited, every poll times out.
NextIdleAfterShellExit ==
    \/ io_alive /\ Next
    \/ ~io_alive /\ Next /\ event' = NoEvent

\* The main thread is never suspended for good: the only place it blocks is
\* the input poll, which returns after 50 ms at the latest.  Nothing obliges
\* the user, the shell or a signal to act.
FairSpec == Spec /\ WF_vars(MainThreadStep)

IdleFairSpec ==
    Init /\ [][NextIdleAfterShellExit]_vars /\ WF_vars(MainThreadStep)

(***************************************************************************)
(* Functions applied on their own: the arguments are drawn in the initial  *)
(* state, one step applies the function.                                   *)
(***************************************************************************)
programVars ==
    <<hostVars, mainVars, appVars, envVars, iterVars, title_quit_status,
      events_rx, lockVars>>

\* The selections normalize_selection is applied to.
SelectionsToNormalize ==
    [start_row : 0..MaxSelRow, start_col : 0..MaxSelCol,
     end_row : 0..MaxSelRow, end_col : 0..MaxSelCol, is_active : {TRUE}]

\* The selection whose ends are the tuple normalize_selection returned.
SelectionOf(n) ==
    [start_row |-> n[1], start_col |-> n[2], end_row |-> n[3],
     end_col |-> n[4], is_active |-> TRUE]

NormalizeInit ==
    /\ pc = "call"
    /\ ProcessStart
    /\ fn_args \in SelectionsToNormalize
    /\ fn_ret = <<>>

\* self.normalize_selection()
NormalizeCall ==
    /\ pc = "call"
    /\ fn_ret' = normalize_selection(fn_args)
    /\ pc' = "return"
    /\ UNCHANGED <<fn_args, programVars>>

\* normalize_selection on the selection it has just returned.
NormalizeAgain ==
    /\ pc = "return"
    /\ fn_args' = SelectionOf(fn_ret)
    /\ fn_ret' = normalize_selection(SelectionOf(fn_ret))
    /\ pc' = "again"
    /\ UNCHANGED programVars

NormalizeNext ==
    \/ NormalizeCall
    \/ NormalizeAgain

NormalizeSpec == NormalizeInit /\ [][NormalizeNext]_vars

\* The panes the layout gives for the host sizes of this model, and the
\* scroll offsets the scrolling handlers can leave: top, one wheel step, and
\* the largest offset of a pane without visible rows.
CoordAreas == {Layout(HostWidth, h) : h \in HostHeights \cup {FlatHostHeight}}

CoordOffsets == {0, ScrollStep, NumLines}

\* A call of one of the two coordinate mappings: host_to_grid is
\* mouse_to_terminal_coords on the host cell (col, row), grid_to_host is
\* set_terminal_cursor_position on the grid cell (col, row).
CoordCalls ==
    [fn : {"host_to_grid", "grid_to_host"}, area : CoordAreas,
     offset : CoordOffsets, col : 0..HostWidth, row : 0..TallHostHeight]

CoordInit ==
    /\ pc = "call"
    /\ ProcessStart
    /\ fn_args \in CoordCalls
    /\ fn_ret = <<>>

\* self.mouse_to_terminal_coords(col, row), or
\* self.set_terminal_cursor_position(f) with cursor_state.position =
\* (col, row).
CoordCall ==
    /\ pc = "call"
    /\ fn_ret' =
          IF fn_args.fn = "host_to_grid"
          THEN mouse_to_terminal_coords(fn_args.area, fn_args.offset,
                                        fn_args.col, fn_args.row)
          ELSE set_terminal_cursor_position(fn_args.area, fn_args.offset,
                                            fn_args.col, fn_args.row)
    /\ pc' = "return"
    /\ UNCHANGED <<fn_args, programVars>>

\* The other mapping applied to the cell the first one returned.
CoordBack ==
    /\ pc = "return"
    /\ fn_ret # None
    /\ fn_ret' =
          IF fn_args.fn = "host_to_grid"
          THEN set_terminal_cursor_position(fn_args.area, fn_args.offset,
                                            fn_ret[1], fn_ret[2])
          ELSE mouse_to_terminal_coords(fn_args.area, fn_args.offset,
                                        fn_ret[1], fn_ret[2])
    /\ pc' = "back"
    /\ UNCHANGED <<fn_args, programVars>>

CoordNext ==
    \/ CoordCall
    \/ CoordBack

CoordSpec == CoordInit /\ [][CoordNext]_vars

\* The button codes of the xterm protocol (left, right, release, wheel up,
\* wheel down) and the host columns / rows a report is made for: the first
\* cells, the last cell whose byte is below 0x80, the cells around the
\* clamp at 255 and one beyond it.
MouseButtons == {0, 2, 3, 64, 65}

MouseReportCells == {0, 1, 95, 96, 222, 223, 300}

MouseReportInit ==
    /\ pc = "call"
    /\ ProcessStart
    /\ fn_args \in
          [button : MouseButtons, col : MouseReportCells,
           row : MouseReportCells]
    /\ fn_ret = <<>>

\* self.send_mouse_event(button, col, row)
SendMouseEvent ==
    /\ pc = "call"
    /\ input_calls' =
          <<send_mouse_event(fn_args.button, fn_args.col, fn_args.row)>>
    /\ input_results' = InputResults(input_calls')
    /\ fn_ret' = "Ok"
    /\ pc' = "return"
    /\ UNCHANGED <<fn_args, hostVars, mainVars, appVars, envVars, event,
                   handler_result, lines_read, clipboard_new,
                   clipboard_calls, title_quit_status, events_rx, lockVars>>

MouseReportSpec == MouseReportInit /\ [][SendMouseEvent]_vars

\* The calls of render_line_with_selection: a selection, active or not, and
\* a row of the snapshot with its index.
HighlightCalls ==
    [sel : [start_row : 0..MaxSelRow, start_col : 0..MaxSelCol,
            end_row : 0..MaxSelRow, end_col : 0..MaxSelCol,
            is_active : BOOLEAN],
     line : {[i \in 1..len |-> 64 + i] : len \in 0..MaxLineLen},
     row_idx : 0..(MaxSelRow + 1)]

HighlightInit ==
    /\ pc = "call"
    /\ ProcessStart
    /\ fn_args \in HighlightCalls
    /\ fn_ret = <<>>

\* self.render_line_with_selection(line, row_idx as u16)
RenderLine ==
    /\ pc = "call"
    /\ fn_ret' = render_line_with_selection(fn_args.sel, fn_args.line,
                                            fn_args.row_idx)
    /\ pc' = "return"
    /\ UNCHANGED <<fn_args, programVars>>

HighlightSpec == HighlightInit /\ [][RenderLine]_vars

(***************************************************************************)
(* The grid mutex.  One iteration of App::run is followed call by call,    *)
(* with the emulator I/O thread taking the mutex for its own steps: pc is  *)
(* the call the UI thread is at, term_lock the holder of                   *)
(* Terminal.term (Arc<FairMutex<Term>>).                                   *)
(***************************************************************************)
\* The UI thread is inside a function that has taken the mutex.
LockedPcs == {"cursor_locked", "content_locked", "copy_locked"}

\* The UI thread is about to call term.lock().
LockingPcs == {"cursor_lock", "content_lock", "copy_lock"}

\* The keys whose arm of handle_key_event calls Terminal::input.
InputKeys == {key \in Keys : ~IsQuitChord(key) /\ KeyBytes(key) # None}

\* App::run is entered: main has set the host terminal up and App::new has
\* started the emulator I/O thread.
LoopEntered ==
    /\ raw_mode = TRUE
    /\ alt_screen = TRUE
    /\ mouse_capture = TRUE
    /\ app_result = "none"
    /\ restore_result = "none"
    /\ restore_done = {}
    /\ exit_result = "none"
    /\ should_quit = FALSE
    /\ text_selection = TextSelectionDefault
    /\ is_dragging = FALSE
    /\ shutdown_signal = FALSE
    /\ terminal_area = RectDefault
    /\ scroll_offset = 0
    /\ total_lines = 0
    /\ quit_confirm_count = 0
    /\ title_quit_status = FALSE
    /\ event = NoEvent
    /\ input_calls = <<>>
    /\ input_results = <<>>
    /\ handler_result = "none"
    /\ lines_read = <<>>
    /\ clipboard_new = "none"
    /\ clipboard_calls = <<>>
    /\ io_alive = TRUE
    /\ mouse_mode = FALSE
    /\ events_rx = "dropped"
    /\ fn_args = <<>>
    /\ fn_ret = <<>>
    /\ term_lock = "free"

LockInit ==
    /\ pc = "cursor_lock"
    /\ LoopEntered
    /\ io_pc = "idle"

\* What the steps on the mutex leave alone.
lockFrame ==
    <<hostVars, mainVars, appVars, shutdown_signal, mouse_mode,
      title_quit_status, lines_read, clipboard_new, clipboard_calls,
      events_rx, fnVars>>

\* Mutant of LockAfterReturn: the guard outlives the function that took it.
LockAfterReturn_GuardKept(holder) == holder

\* The holder of the mutex after get_renderable_cursor,
\* get_renderable_content or is_mouse_mode_enabled has returned: the guard
\* `term` is a local of the function and is dropped at its end.
LockAfterReturn(holder) == "free"

\* let term = self.term.lock(); in get_renderable_cursor (called first in
\* the draw closure), in get_renderable_content (called next in the draw
\* closure, and by copy_selected_text).  The call blocks while the I/O thread
\* holds the mutex.
UiLock ==
    /\ pc \in LockingPcs
    /\ term_lock = "free"
    /\ term_lock' = "ui"
    /\ pc' = CASE pc = "cursor_lock" -> "cursor_locked"
               [] pc = "content_lock" -> "content_locked"
               [] pc = "copy_lock" -> "copy_locked"
    /\ UNCHANGED <<lockFrame, event, input_calls, input_results,
                   handler_result, io_alive, io_pc>>

\* The function that took the mutex reads the cursor or copies the rows
\* and returns.
UiReturn ==
    /\ pc \in LockedPcs
    /\ term_lock' = LockAfterReturn(term_lock)
    /\ pc' = CASE pc = "cursor_locked" -> "content_lock"
               [] pc = "content_locked" -> "flush"
               [] pc = "copy_locked" -> "clipboard"
    /\ UNCHANGED <<lockFrame, event, input_calls, input_results,
                   handler_result, io_alive, io_pc>>

\* The draw closure has returned: ratatui_terminal.draw writes the frame to
\* the host backend.
BackendDraw ==
    /\ pc = "flush"
    /\ pc' = "poll_wait"
    /\ UNCHANGED <<lockFrame, event, input_calls, input_results,
                   handler_result, io_alive, term_lock, io_pc>>

\* event::poll returns: with nothing, with a key whose arm calls
\* Terminal::input, or with the release of the left button that ends a
\* selection (copy_selected_text).
PollReturns ==
    /\ pc = "poll_wait"
    /\ \/ /\ event' = NoEvent
          /\ pc' = "quit_check"
       \/ /\ \E key \in InputKeys : event' = KeyEvent(key)
          /\ pc' = "input_send"
       \/ /\ \E p \in MousePoints : event' = MouseEventAt("UpLeft", p[1], p[2])
          /\ pc' = "copy_lock"
    /\ UNCHANGED <<lockFrame, input_calls, input_results, handler_result,
                   io_alive, term_lock, io_pc>>

\* self.terminal.input(bytes): the bytes go on the channel to the I/O
\* thread; the mutex is not touched.
InputSend ==
    /\ pc = "input_send"
    /\ input_calls' = <<KeyBytes(event.key)>>
    /\ input_results' = InputResults(input_calls')
    /\ handler_result' = HandlerResult(input_results')
    /\ pc' = "quit_check"
    /\ UNCHANGED <<lockFrame, event, io_alive, term_lock, io_pc>>

\* copy_selected_text after the snapshot has been returned: the rows are
\* cut and handed to the clipboard.
ClipboardStep ==
    /\ pc = "clipboard"
    /\ handler_result' = "Ok"
    /\ pc' = "quit_check"
    /\ UNCHANGED <<lockFrame, event, input_calls, input_results, io_alive,
                   term_lock, io_pc>>

\* The end of the iteration; the next one begins.
NextIteration ==
    /\ pc = "quit_check"
    /\ event' = NoEvent
    /\ input_calls' = <<>>
    /\ input_results' = <<>>
    /\ handler_result' = "none"
    /\ pc' = "cursor_lock"
    /\ UNCHANGED <<lockFrame, io_alive, term_lock, io_pc>>

\* The I/O thread has shell output to process and asks for the mutex.
IoWait ==
    /\ io_pc = "idle"
    /\ io_pc' = "waiting"
    /\ UNCHANGED <<pc, lockFrame, iterVars, io_alive, term_lock>>

\* The I/O thread gets the mutex and runs one emulator step.
IoLock ==
    /\ io_pc = "waiting"
    /\ term_lock = "free"
    /\ term_lock' = "io"
    /\ io_pc' = "step"
    /\ UNCHANGED <<pc, lockFrame, iterVars, io_alive>>

\* The emulator step is done.
IoUnlock ==
    /\ io_pc = "step"
    /\ term_lock' = "free"
    /\ io_pc' = "idle"
    /\ UNCHANGED <<pc, lockFrame, iterVars, io_alive>>

\* The shell exits and the I/O thread ends.
IoThreadEnd ==
    /\ io_pc = "idle"
    /\ io_alive' = FALSE
    /\ io_pc' = "ended"
    /\ UNCHANGED <<pc, lockFrame, iterVars, term_lock>>

UiLockStep ==
    \/ UiLock
    \/ UiReturn
    \/ BackendDraw
    \/ PollReturns
    \/ InputSend
    \/ ClipboardStep
    \/ NextIteration

LockNext ==
    \/ UiLockStep
    \/ IoWait
    \/ IoLock
    \/ IoUnlock
    \/ IoThreadEnd

\* The UI thread always goes on (the poll returns after 50 ms at the
\* latest), the I/O thread ends its emulator step, and the mutex is fair:
\* a thread that waits for it gets it if it is free again and again.
LockSpec ==
    /\ LockInit
    /\ [][LockNext]_vars
    /\ WF_vars(UiLockStep)
    /\ WF_vars(IoUnlock)
    /\ SF_vars(IoLock)

\* Columns (from 0) at which a grid line holds a wide character in the
\* grids given to get_renderable_content on its own: the first column, the
\* fourth, one in the middle and the last column a wide character fits in.
\* No two are neighbours, so each is followed by its spacer.
WideColumns == {0, 3, 40, NumCols - 2}

\* What the narrow cells of a line hold: letters, spaces, or letters
\* followed by spaces to the end of the line.
Fills == {"text", "blank", "text_then_blank"}

NarrowChar(fill, col) ==
    CASE fill = "text" -> 65 + (col % 26)
      [] fill = "blank" -> 32
      [] fill = "text_then_blank" -> IF col < 10 THEN 65 + (col % 26) ELSE 32

\* A grid line as the emulator writes it: a wide character sets WIDE_CHAR
\* in its cell and leaves a blank cell with WIDE_CHAR_SPACER after it.
GridLine(wide_cols, fill) ==
    [i \in 1..NumCols |->
        IF (i - 1) \in wide_cols
        THEN [c |-> Syllable, wide |-> TRUE, spacer |-> FALSE]
        ELSE IF (i - 2) \in wide_cols
        THEN [c |-> 32, wide |-> FALSE, spacer |-> TRUE]
        ELSE [c |-> NarrowChar(fill, i - 1), wide |-> FALSE,
              spacer |-> FALSE]]

\* The grid: NumLines screen lines; the first lines hold the wide
\* characters, the others narrow cells only.
GridOf(wide_cols, fill) ==
    [r \in 1..NumLines |->
        IF r <= 2 THEN GridLine(wide_cols, fill) ELSE GridLine({}, fill)]

SnapshotInit ==
    /\ pc = "call"
    /\ ProcessStart
    /\ fn_args \in
          {GridOf(wide_cols, fill) : wide_cols \in SUBSET WideColumns,
                                     fill \in Fills}
    /\ fn_ret = <<>>

\* self.terminal.get_renderable_content()
GetRenderableContent ==
    /\ pc = "call"
    /\ fn_ret' = get_renderable_content(fn_args)
    /\ pc' = "return"
    /\ UNCHANGED <<fn_args, programVars>>

\* line.chars().count() of a row of the snapshot the frame is drawn from.
MeasureRows ==
    /\ pc = "return"
    /\ fn_ret' = [r \in 1..Len(fn_ret) |-> Len(fn_ret[r])]
    /\ pc' = "measured"
    /\ UNCHANGED <<fn_args, programVars>>

SnapshotNext ==
    \/ GetRenderableContent
    \/ MeasureRows

SnapshotSpec == SnapshotInit /\ [][SnapshotNext]_vars

\* The directories and shells of the launching process's environment in the
\* launches followed here.  An Option is None or <<value>>: None stands for
\* a home directory that cannot be determined and for an unset SHELL
\* variable.
Dirs == {"/", "/tmp", "/home/user", "/home/user/project"}

Shells == {"/bin/bash", "/bin/zsh", "/usr/bin/fish"}

Some(value) == <<value>>

Launches ==
    [cwd : Dirs, home_dir : {Some(d) : d \in Dirs} \cup {None},
     shell_var : {Some(s) : s \in Shells} \cup {None}]

\* PtyOptions as TerminalBuilder::new fills it in for the call App::new
\* makes (working_directory = None, shell = Shell::System), not on Windows:
\* the program is $SHELL or /bin/sh, the working directory
\* working_directory.or_else(|| dirs::home_dir()).
PtyOptions(working_directory, env) ==
    [shell |-> IF env.shell_var # None THEN env.shell_var[1] ELSE "/bin/sh",
     working_directory |->
         IF working_directory # None THEN working_directory
         ELSE env.home_dir]

\* tty::new(&pty_options, ..): the shell is spawned in
\* pty_options.working_directory, or, if that is None, in the directory
\* of the spawning process.
SpawnedShell(pty_options, env) ==
    [program |-> pty_options.shell,
     cwd |-> IF pty_options.working_directory # None
             THEN pty_options.working_directory[1]
             ELSE env.cwd]

LaunchInit ==
    /\ pc = "call"
    /\ ProcessStart
    /\ fn_args \in Launches
    /\ fn_ret = <<>>

\* App::new: TerminalBuilder::new(None, Shell::System, env, 1)
SpawnShell ==
    /\ pc = "call"
    /\ fn_ret' = SpawnedShell(PtyOptions(None, fn_args), fn_args)
    /\ pc' = "return"
    /\ UNCHANGED <<fn_args, programVars>>

LaunchSpec == LaunchInit /\ [][SpawnShell]_vars

(***************************************************************************)
(* The UI loop under a user who selects text with the mouse and resizes    *)
(* the host terminal in both directions.                                   *)
(***************************************************************************)
HostWidths == {HostWidth, WideHostWidth}

\* Where the user presses and drags: near the pane's top-left corner and
\* near the right edge of the widened pane.
ResizeMousePoints ==
    {<<MaxMouseCol, MaxMouseRow>>, <<RightMouseCol, MaxMouseRow>>}

ResizeInit ==
    /\ pc = "draw"
    /\ LoopEntered
    /\ io_pc = "none"

\* ratatui_terminal.draw(..)? on a host terminal of either width and height.
ResizeDraw ==
    /\ pc = "draw"
    /\ \E w \in HostWidths, h \in HostHeights : DrawFrameOn(w, h)
    /\ pc' = "poll"
    /\ UNCHANGED <<hostVars, mainVars, envVars, iterVars, events_rx, fnVars,
                   lockVars>>

ResizeNext ==
    \/ ResizeDraw
    \/ PollTimeout
    \/ \E kind \in {"DownLeft", "DragLeft"}, p \in ResizeMousePoints :
          MouseEvent(kind, p[1], p[2])
    \/ CheckQuit

ResizeSpec == ResizeInit /\ [][ResizeNext]_vars

(***************************************************************************)
(* copy_selected_text on its own: the slices line_chars[start_pos..end_pos] *)
(* it takes.                                                               *)
(***************************************************************************)
RECURSIVE SlicesFrom(_, _, _)
\* The slices the loop `for row in start_row..=end_row` takes from `row` on:
\* none for a row the snapshot does not have, none for a row that ends at
\* or before start_pos.
SlicesFrom(lines, n, row) ==
    IF row > n[3] THEN <<>>
    ELSE (IF row < Len(lines) /\ StartPos(row, n) < Len(lines[row + 1])
          THEN <<[row |-> row,
                  start_pos |-> StartPos(row, n),
                  end_pos |-> EndPos(lines[row + 1], row, n),
                  len |-> Len(lines[row + 1])]>>
          ELSE <<>>)
         \o SlicesFrom(lines, n, row + 1)

\* Rows of a snapshot: an empty one, one of a single character, one longer
\* than any selected column.
CopyRows == {<<>>, <<65>>, <<65, 66, 67>>}

\* The snapshots get_renderable_content returns to copy_selected_text.
CopySnapshots ==
    UNION {[1..k -> CopyRows] : k \in 0..MaxCopyRows}

CopyInit ==
    /\ pc = "call"
    /\ ProcessStart
    /\ fn_args \in [sel : SelectionsToNormalize, lines : CopySnapshots]
    /\ fn_ret = <<>>

\* self.copy_selected_text() up to the clipboard: the slices taken and the
\* text collected.
CopySelectedText ==
    /\ pc = "call"
    /\ fn_ret' =
          LET n == normalize_selection(fn_args.sel)
          IN  [slices |-> SlicesFrom(fn_args.lines, n, n[1]),
               selected_text |-> SelectedText(fn_args.sel, fn_args.lines)]
    /\ pc' = "return"
    /\ UNCHANGED <<fn_args, programVars>>

CopySpec == CopyInit /\ [][CopySelectedText]_vars

(***************************************************************************)
(* The Hangul composer (hangul.rs).  A character is its code point, an     *)
(* Option is None or Some(value).                                          *)
(***************************************************************************)
SYLLABLE_BASE == 44032
V_COUNT == 21
T_COUNT == 28
N_COUNT == V_COUNT * T_COUNT

\* The tables, in the order of their indices (the index of an entry is its
\* position less one).
LEADING_CONSONANTS ==
    <<12593, 12594, 12596, 12599, 12600, 12601, 12609, 12610, 12611, 12613,
      12614, 12615, 12616, 12617, 12618, 12619, 12620, 12621, 12622>>

VOWELS == [i \in 1..V_COUNT |-> 12622 + i]

TRAILING_CONSONANTS ==
    <<0, 12593, 12594, 12595, 12596, 12597, 12598, 12599, 12601, 12602,
      12603, 12604, 12605, 12606, 12607, 12608, 12609, 12610, 12612, 12613,
      12614, 12615, 12616, 12618, 12619, 12620, 12621, 12622>>

\* table.iter().skip(skip).find(|(c, _)| *c == ch).map(|(_, idx)| *idx)
FindJamo(table, skip, ch) ==
    IF \E i \in (skip + 1)..Len(table) : table[i] = ch
    THEN Some((CHOOSE i \in (skip + 1)..Len(table) : table[i] = ch) - 1)
    ELSE None

is_leading_consonant(ch) == FindJamo(LEADING_CONSONANTS, 0, ch)

is_vowel(ch) == FindJamo(VOWELS, 0, ch)

is_trailing_consonant(ch) == FindJamo(TRAILING_CONSONANTS, 1, ch)

\* HangulComposer::new(), and the composer after clear()
ComposerNew == [leading |-> None, vowel |-> None, trailing |-> None]

\* HangulComposer::get_current_syllable
get_current_syllable(self) ==
    IF self.leading # None /\ self.vowel # None
    THEN LET l == self.leading[1]
             v == self.vowel[1]
             t == IF self.trailing # None THEN self.trailing[1] ELSE 0
         IN  Some(SYLLABLE_BASE + (l * N_COUNT) + (v * T_COUNT) + t)
    ELSE None

\* CompositionResult: Composing, DirectOutput(a) or CompletedWithNew(a, b);
\* a and b are Options.
Composing == [tag |-> "Composing", a |-> None, b |-> None]

DirectOutput(ch) == [tag |-> "DirectOutput", a |-> Some(ch), b |-> None]

CompletedWithNew(a, b) == [tag |-> "CompletedWithNew", a |-> a, b |-> b]

\* HangulComposer::input_jamo: the composer after the call and the result.
input_jamo(self, ch) ==
    LET l_idx == is_leading_consonant(ch)
        v_idx == is_vowel(ch)
        t_idx == is_trailing_consonant(ch)
        restarted == [ComposerNew EXCEPT !.leading = l_idx]
    IN  IF l_idx # None THEN
            IF self.leading = None
            THEN [self |-> [self EXCEPT !.leading = l_idx],
                  result |-> Composing]
            ELSE [self |-> restarted,
                  result |-> CompletedWithNew(get_current_syllable(self),
                                              None)]
        ELSE IF v_idx # None THEN
            IF self.leading # None /\ self.vowel = None
            THEN [self |-> [self EXCEPT !.vowel = v_idx],
                  result |-> Composing]
            ELSE IF self.leading # None /\ self.vowel # None
            THEN [self |-> ComposerNew,
                  result |-> CompletedWithNew(get_current_syllable(self),
                                              Some(ch))]
            ELSE [self |-> self, result |-> DirectOutput(ch)]
        ELSE IF t_idx # None THEN
            IF self.leading # None /\ self.vowel # None
               /\ self.trailing = None
            THEN [self |-> [self EXCEPT !.trailing = t_idx],
                  result |-> Composing]
            ELSE [self |-> self, result |-> DirectOutput(ch)]
        ELSE [self |-> self, result |-> DirectOutput(ch)]

\* The characters given to the composer: a consonant of both consonant
\* tables, another, a vowel, a consonant of the trailing table only, and a
\* Latin letter.
JamoTyped == {12615, 12596, 12623, 12595, 97}

\* fn_args is the composer and the characters given to it so far, fn_ret
\* the results of the calls made on it, in order.
ComposerInit ==
    /\ pc = "composing"
    /\ ProcessStart
    /\ fn_args = [self |-> ComposerNew, typed |-> <<>>]
    /\ fn_ret = <<>>

\* composer.input_jamo(ch)
InputJamo ==
    /\ pc = "composing"
    /\ Len(fn_args.typed) < MaxJamo
    /\ \E ch \in JamoTyped :
          LET r == input_jamo(fn_args.self, ch)
          IN  /\ fn_args' = [self |-> r.self,
                             typed |-> Append(fn_args.typed, ch)]
              /\ fn_ret' = Append(fn_ret, r.result)
    /\ UNCHANGED <<pc, programVars>>

\* composer.get_current_syllable()
GetCurrentSyllable ==
    /\ pc = "composing"
    /\ fn_ret' = Append(fn_ret, [tag |-> "Syllable",
                                 a |-> get_current_syllable(fn_args.self),
                                 b |-> None])
    /\ pc' = "read"
    /\ UNCHANGED <<fn_args, programVars>>

\* composer.flush()
Flush ==
    /\ pc = "composing"
    /\ fn_ret' = Append(fn_ret, [tag |-> "Flushed",
                                 a |-> get_current_syllable(fn_args.self),
                                 b |-> None])
    /\ fn_args' = [fn_args EXCEPT !.self = ComposerNew]
    /\ pc' = "flushed"
    /\ UNCHANGED programVars

ComposerNext ==
    \/ InputJamo
    \/ GetCurrentSyllable
    \/ Flush

ComposerSpec == ComposerInit /\ [][ComposerNext]_vars

(***************************************************************************)
(* Properties                                                              *)
(***************************************************************************)
\* max_offset = max(0, total_rows - visible_rows)
MaxOffset == Max(0, total_lines - VisibleLines(terminal_area))

\* The point is in the pane interior: inside the border on every side.
InsideInterior(area, col, row) ==
    /\ col > area.x
    /\ col < area.x + area.width - 1
    /\ row > area.y
    /\ row < area.y + area.height - 1

\* host_to_grid of the point, under the pane and scroll offset of the
\* current state.
HostToGrid(p) ==
    mouse_to_terminal_coords(terminal_area, scroll_offset, p[1], p[2])

\* The selection active(anchor = a, head = h).
ActiveSelection(a, h) ==
    [start_row |-> a[2], start_col |-> a[1], end_row |-> h[2],
     end_col |-> h[1], is_active |-> TRUE]

QuitChord == [code |-> "Char", ch |-> CharZ, ctrl |-> TRUE]

\* C1: in every state of the UI loop,
\* 0 <= scroll_offset <= max(0, total_rows - visible_rows); a frame that
\* finds the pane grown past the snapshot clamps a non-zero offset to 0.
C1_ScrollOffsetClamped ==
    pc \in LoopPcs => (0 <= scroll_offset /\ scroll_offset <= MaxOffset)

\* C2: a key press other than the quit chord resets the quit counter to 0,
\* so that a quit chord after it is a first press again.
C2_OtherKeyResetsQuitCounter ==
    [][\A key \in Keys :
          (KeyPress(key) /\ ~IsQuitChord(key)) => quit_confirm_count' = 0]_vars

\* C3: the first Ctrl+Z sets the counter to 1 and leaves the exit flag
\* false, and the frame drawn after it carries the banner in the title; the
\* next Ctrl+Z sets the exit flag; the counter is 0 or 1; the exit flag,
\* once set, stays set until run returns.
C3_QuitConfirmation ==
    /\ [](quit_confirm_count \in {0, 1})
    /\ []((pc = "poll" /\ quit_confirm_count = 1) => title_quit_status)
    /\ [][KeyPress(QuitChord) =>
            IF quit_confirm_count = 0 /\ ~should_quit
            THEN quit_confirm_count' = 1 /\ ~should_quit'
            ELSE should_quit']_vars
    /\ [][should_quit => (should_quit' \/ pc' = "restore")]_vars

\* C3 witness: the banner has been shown and the second press has set the
\* exit flag.
C3_Witness ==
    /\ pc = "check"
    /\ quit_confirm_count = 1
    /\ title_quit_status
    /\ should_quit

\* C4: once the emulator I/O thread has exited, the UI loop eventually
\* leaves the loop, with no further user input.
C4_ShellExitLeadsToAppExit ==
    (pc \in LoopPcs /\ ~io_alive) ~> (pc \notin LoopPcs)

\* C5: on every path by which main ends after raw mode has been enabled,
\* raw mode, the alternate screen and mouse capture have been reverted
\* (unless the restoration was run and itself failed).
C5_RestoredOnEveryExit ==
    pc = "exited" =>
        \/ restore_result = "err"
        \/ (~raw_mode /\ ~alt_screen /\ ~mouse_capture)

\* C6: when the UI loop returned an error, main has run the restoration
\* before it returns, all of it unless one of its steps failed, and main
\* returns the loop's error whether the restoration failed or not.
C6_LoopErrorRestoresThenReturnsIt ==
    (pc = "exited" /\ app_result = "run_err") =>
        /\ exit_result = "run_err"
        /\ restore_result \in {"ok", "err"}
        /\ restore_result = "ok" =>
              /\ restore_done =
                     {"raw_mode", "alt_screen", "mouse_capture", "show_cursor"}
              /\ ~raw_mode /\ ~alt_screen /\ ~mouse_capture

\* C6 witness: the loop failed, the restoration failed too, main has ended.
C6_Witness ==
    /\ pc = "exited"
    /\ app_result = "run_err"
    /\ restore_result = "err"
    /\ raw_mode

\* The bytes are an xterm mouse report for the wheel event: ESC [ M, the
\* button byte (0x41 for wheel-down) and two coordinate bytes.
IsWheelReport(bytes, kind) ==
    /\ Len(bytes) = 6
    /\ SubSeq(bytes, 1, 3) = <<ESC, 91, 77>>
    /\ kind = "ScrollDown" => bytes[4] = 65

\* C7: while the emulator has a mouse reporting mode set, a wheel event
\* inside the pane passes an xterm mouse report to input() and leaves
\* scroll_offset unchanged.
C7_WheelPassthrough ==
    [][\A kind \in {"ScrollUp", "ScrollDown"}, p \in MousePoints :
          ( /\ mouse_mode
            /\ InsideInterior(terminal_area, p[1], p[2])
            /\ MouseEvent(kind, p[1], p[2]) )
          => /\ scroll_offset' = scroll_offset
             /\ Len(input_calls') = 1
             /\ IsWheelReport(input_calls'[1], kind)]_vars

\* C8: a left release at p in the pane interior that follows a left press
\* at p with no drag in between (the selection is still the one the press
\* made: active, not dragging, anchor = head = host_to_grid(p)) passes
\* ESC [ row+1 ; col+1 H to input().
C8_ClickSendsCursorEscape ==
    [][\A p \in MousePoints :
          ( /\ InsideInterior(terminal_area, p[1], p[2])
            /\ HostToGrid(p) # None
            /\ text_selection = ActiveSelection(HostToGrid(p), HostToGrid(p))
            /\ ~is_dragging
            /\ MouseEvent("UpLeft", p[1], p[2]) )
          => input_calls' =
                 <<CursorEscape(HostToGrid(p)[1], HostToGrid(p)[2])>>]_vars

\* C9: a left press at p in the pane interior makes the selection
\* active(anchor = host_to_grid(p), head = host_to_grid(p)) with
\* dragging = false, whatever the selection was before.
C9_PressStartsSelection ==
    [][\A p \in MousePoints :
          ( /\ InsideInterior(terminal_area, p[1], p[2])
            /\ MouseEvent("DownLeft", p[1], p[2]) )
          => /\ HostToGrid(p) # None
             /\ text_selection' = ActiveSelection(HostToGrid(p), HostToGrid(p))
             /\ ~is_dragging']_vars

\* C9 witness: a selection just started by a press on the second row of a
\* scrolled view.
C9_Witness ==
    /\ text_selection.is_active
    /\ ~is_dragging
    /\ scroll_offset > 0
    /\ text_selection.start_row = scroll_offset + 1
    /\ text_selection.end_row = text_selection.start_row
    /\ text_selection.end_col = text_selection.start_col

\* C10: with the selection active, a left drag to p in the pane, or a mouse
\* move to p in the pane while dragging, moves the head to host_to_grid(p)
\* and leaves dragging = true; no drag or move event changes the anchor.
C10_DragMovesHead ==
    [][\A p \in MousePoints :
          /\ ( /\ text_selection.is_active
               /\ HostToGrid(p) # None
               /\ \/ MouseEvent("DragLeft", p[1], p[2])
                  \/ is_dragging /\ MouseEvent("Moved", p[1], p[2]) )
             => /\ text_selection' =
                    [text_selection EXCEPT !.end_row = HostToGrid(p)[2],
                                           !.end_col = HostToGrid(p)[1]]
                /\ is_dragging'
          /\ ( \/ MouseEvent("DragLeft", p[1], p[2])
               \/ MouseEvent("Moved", p[1], p[2]) )
             => /\ text_selection'.start_row = text_selection.start_row
                /\ text_selection'.start_col = text_selection.start_col]_vars

\* C10 witness: a drag in progress whose head has left the anchor.
C10_Witness ==
    /\ text_selection.is_active
    /\ is_dragging
    /\ text_selection.end_col # text_selection.start_col
    /\ text_selection.end_row # text_selection.start_row

\* The event handled by this step is a mouse event of the kind.
HandlesMouse(kind) ==
    /\ pc = "poll"
    /\ event'.type = "mouse"
    /\ event'.kind = kind

\* C11: a left release while the selection is active leaves the selection
\* inactive, whether the clipboard is unavailable, fails to write or
\* writes; when the selected text is empty or all whitespace nothing is
\* passed to the clipboard.
C11_ReleaseClearsSelection ==
    /\ [][(HandlesMouse("UpLeft") /\ text_selection.is_active) =>
             (~text_selection'.is_active /\ lines_read' # <<>>)]_vars
    /\ []((pc = "check" /\ lines_read # <<>>) =>
             /\ ~text_selection.is_active
             /\ TrimIsEmpty(SelectedText(
                    [text_selection EXCEPT !.is_active = TRUE], lines_read))
                => (clipboard_new = "none" /\ clipboard_calls = <<>>))

\* C11 witness: a release found the clipboard unavailable with a text to
\* copy, and the selection is inactive.
C11_Witness ==
    /\ pc = "check"
    /\ event.type = "mouse"
    /\ event.kind = "UpLeft"
    /\ clipboard_new = "err"
    /\ ~text_selection.is_active

\* C12: the anchor and the head of an active selection are grid
\* coordinates: columns below the grid's columns, rows below the
\* snapshot's rows.
C12_SelectionInsideGrid ==
    (pc \in LoopPcs /\ text_selection.is_active) =>
        /\ text_selection.start_col < NumCols
        /\ text_selection.end_col < NumCols
        /\ text_selection.start_row < total_lines
        /\ text_selection.end_row < total_lines

\* (row, col) of a is at or before (row, col) of b, rows first.
LexLeq(a, b) == a.row < b.row \/ (a.row = b.row /\ a.col <= b.col)

\* The anchor and the head a selection holds.
AnchorOf(sel) == [row |-> sel.start_row, col |-> sel.start_col]

HeadOf(sel) == [row |-> sel.end_row, col |-> sel.end_col]

\* The normalized range of a selection: the lexicographic minimum and
\* maximum of its anchor and head.
RangeStart(sel) ==
    IF LexLeq(AnchorOf(sel), HeadOf(sel)) THEN AnchorOf(sel) ELSE HeadOf(sel)

RangeEnd(sel) ==
    IF LexLeq(AnchorOf(sel), HeadOf(sel)) THEN HeadOf(sel) ELSE AnchorOf(sel)

\* The codepoints of a row from column a through column b inclusive.
RowSlice(row_chars, a, b) == [i \in 1..(b - a + 1) |-> row_chars[a + i]]

RECURSIVE JoinRows(_)
\* The rows joined with '\n' between them.
JoinRows(parts) ==
    IF Len(parts) = 0 THEN <<>>
    ELSE IF Len(parts) = 1 THEN parts[1]
    ELSE parts[1] \o <<10>> \o JoinRows(Tail(parts))

\* The text of the range start..end over the snapshot rows: row r gives
\* its columns from (start.col if r = start.row else 0) through (end.col if
\* r = end.row else len(row) - 1).
Materialized(start, end, lines) ==
    JoinRows([k \in 1..(end.row - start.row + 1) |->
                LET r == start.row + k - 1
                    row_chars == lines[r + 1]
                IN  RowSlice(row_chars,
                             IF r = start.row THEN start.col ELSE 0,
                             IF r = end.row THEN end.col
                             ELSE Len(row_chars) - 1)])

\* C13: the text a release passes to the clipboard is, for each row of the
\* normalized range (all of them rows of the snapshot), the codepoints
\* from the start column (0 after the first row) through the end column
\* (the row's last before the last row), joined with newline.
C13_CopiedTextIsTheRange ==
    ( /\ pc = "check"
      /\ clipboard_new = "ok"
      /\ RangeEnd(text_selection).row < Len(lines_read) )
    => clipboard_calls =
           <<Materialized(RangeStart(text_selection),
                          RangeEnd(text_selection), lines_read)>>

\* C13 witness: a selection made backwards over several rows of the
\* snapshot has been copied.
C13_Witness ==
    /\ pc = "check"
    /\ clipboard_new = "ok"
    /\ clipboard_calls # <<>>
    /\ text_selection.end_row < text_selection.start_row
    /\ text_selection.start_row < Len(lines_read)

\* The number of '\n' in the text.
NewlineCount(text) == Cardinality({i \in 1..Len(text) : text[i] = 10})

\* C14: the text copied for a selection whose normalized range spans rows
\* r0..r1 has exactly r1 - r0 newlines and neither begins nor ends with
\* one.
C14_NewlinesOfCopiedText ==
    (pc = "check" /\ clipboard_calls # <<>>) =>
        LET text == clipboard_calls[1]
        IN  /\ NewlineCount(text) =
                   RangeEnd(text_selection).row - RangeStart(text_selection).row
            /\ text[1] # 10
            /\ text[Len(text)] # 10

\* C15: normalize_selection returns the lexicographic minimum and maximum
\* of (anchor.row, anchor.col) and (head.row, head.col) as (start, end),
\* and normalizing what it returned returns the same again.
C15_NormalizeIsLexMinMax ==
    /\ [](pc = "return" =>
             fn_ret = <<RangeStart(fn_args).row, RangeStart(fn_args).col,
                        RangeEnd(fn_args).row, RangeEnd(fn_args).col>>)
    /\ [][pc = "return" => fn_ret' = fn_ret]_vars

\* C15 witness: a selection made leftwards on one row came back with its
\* ends exchanged.
C15_Witness ==
    /\ pc = "return"
    /\ fn_args.start_row = fn_args.end_row
    /\ fn_args.start_col > fn_args.end_col
    /\ fn_ret = <<fn_args.end_row, fn_args.end_col,
                  fn_args.start_row, fn_args.start_col>>

\* The event handled by this step is a press of the key.
HandlesKey(code, ctrl) ==
    /\ pc = "poll"
    /\ event'.type = "key"
    /\ event'.key.code = code
    /\ event'.key.ctrl = ctrl

\* visible_rows of the last frame
VisibleRows == VisibleLines(terminal_area)

\* C16: with no mouse reporting mode set, a wheel-up sets scroll_offset to
\* max(0, offset - 3) and a wheel-down to min(max_offset, offset + 3).
C16_WheelScrollsByThree ==
    [][/\ (~mouse_mode /\ HandlesMouse("ScrollUp")) =>
             scroll_offset' = Max(0, scroll_offset - 3)
       /\ (~mouse_mode /\ HandlesMouse("ScrollDown")) =>
             scroll_offset' = Min(MaxOffset, scroll_offset + 3)]_vars

\* C17: PageUp sets scroll_offset to max(0, offset - visible_rows),
\* PageDown to min(max_offset, offset + visible_rows), Ctrl+Home to 0 and
\* Ctrl+End to max_offset.
C17_KeysScrollByPage ==
    [][/\ HandlesKey("PageUp", FALSE) =>
             scroll_offset' = Max(0, scroll_offset - VisibleRows)
       /\ HandlesKey("PageDown", FALSE) =>
             scroll_offset' = Min(MaxOffset, scroll_offset + VisibleRows)
       /\ HandlesKey("Home", TRUE) => scroll_offset' = 0
       /\ HandlesKey("End", TRUE) => scroll_offset' = MaxOffset]_vars

\* The event handled by this step is one of the six that scroll.
HandlesScroll ==
    \/ HandlesMouse("ScrollUp")
    \/ HandlesMouse("ScrollDown")
    \/ HandlesKey("PageUp", FALSE)
    \/ HandlesKey("PageDown", FALSE)
    \/ HandlesKey("Home", TRUE)
    \/ HandlesKey("End", TRUE)

\* C18: a scroll event that finds 0 <= scroll_offset <= max_offset leaves
\* it so (the handlers change neither total_rows nor visible_rows), and a
\* wheel-down that finds scroll_offset = max_offset leaves it there.
C18_ScrollKeepsBound ==
    [][/\ (HandlesScroll /\ 0 <= scroll_offset /\ scroll_offset <= MaxOffset)
             => /\ 0 <= scroll_offset' /\ scroll_offset' <= MaxOffset
                /\ UNCHANGED <<total_lines, terminal_area>>
       /\ (HandlesMouse("ScrollDown") /\ scroll_offset = MaxOffset)
             => scroll_offset' = MaxOffset]_vars

\* C18 witness: a wheel-down has left the view at the bottom of a snapshot
\* longer than the pane.
C18_Witness ==
    /\ pc = "check"
    /\ event.type = "mouse"
    /\ event.kind = "ScrollDown"
    /\ MaxOffset > 0
    /\ scroll_offset = MaxOffset

\* The pane border or anything outside the pane, in the spec's words.
OnBorderOrOutside(pane, host_col, host_row) ==
    \/ host_col <= pane.x
    \/ host_col >= pane.x + pane.width - 1
    \/ host_row <= pane.y
    \/ host_row >= pane.y + pane.height - 1

\* C19: for every host point, pane and scroll offset the mapping from host
\* to grid coordinates returns None exactly when the point is on the pane
\* border or outside the pane, and otherwise returns
\* (host_col - pane.x - 1, host_row - pane.y - 1 + scroll_offset).
C19_HostToGrid ==
    (pc = "return" /\ fn_args.fn = "host_to_grid") =>
        IF OnBorderOrOutside(fn_args.area, fn_args.col, fn_args.row)
        THEN fn_ret = None
        ELSE fn_ret = <<fn_args.col - fn_args.area.x - 1,
                        fn_args.row - fn_args.area.y - 1 + fn_args.offset>>

\* An interior cell of a scrolled pane has been mapped.
C19_Witness ==
    /\ pc = "return"
    /\ fn_args.fn = "host_to_grid"
    /\ fn_args.offset > 0
    /\ fn_ret # None
    /\ fn_ret[2] > fn_ret[1] + fn_args.offset

\* A grid cell shown in the pane: its row is one of the visible rows from
\* the scroll offset on, its column one of the pane's interior columns.
InVisibleWindow(pane, offset, grid_col, grid_row) ==
    /\ grid_col < pane.width - 2
    /\ grid_row >= offset
    /\ grid_row - offset < pane.height - 2

\* C20: a host point inside the pane interior mapped to grid coordinates
\* and back by the caret placement is the same host point, and a grid point
\* within the visible window mapped to its host cell and back is the same
\* grid point.
C20_RoundTrip ==
    pc = "back" =>
        /\ (/\ fn_args.fn = "host_to_grid"
            /\ ~OnBorderOrOutside(fn_args.area, fn_args.col, fn_args.row))
              => fn_ret = <<fn_args.col, fn_args.row>>
        /\ (/\ fn_args.fn = "grid_to_host"
            /\ InVisibleWindow(fn_args.area, fn_args.offset, fn_args.col,
                               fn_args.row))
              => fn_ret = <<fn_args.col, fn_args.row>>

\* A grid cell of a scrolled pane has gone to its host cell and back.
C20_Witness ==
    /\ pc = "back"
    /\ fn_args.fn = "grid_to_host"
    /\ fn_args.offset > 0
    /\ fn_args.col > 0
    /\ fn_args.row > fn_args.offset
    /\ fn_ret = <<fn_args.col, fn_args.row>>

\* C21: the host caret is placed at the mapped host coordinate of the
\* emulator's logical cursor if and only if grid_row >= scroll_offset and
\* grid_row < scroll_offset + visible_rows; otherwise it is parked at (0, 0).
C21_CaretOverlay ==
    (pc = "return" /\ fn_args.fn = "grid_to_host") =>
        LET visible_rows == Max(0, fn_args.area.height - 2)
            visible == /\ fn_args.row >= fn_args.offset
                       /\ fn_args.row < fn_args.offset + visible_rows
        IN  fn_ret = IF visible
                     THEN <<fn_args.area.x + 1 + fn_args.col,
                            fn_args.area.y + 1 + fn_args.row - fn_args.offset>>
                     ELSE <<0, 0>>

\* The caret of a scrolled pane has been placed on the last visible row.
C21_Witness ==
    /\ pc = "return"
    /\ fn_args.fn = "grid_to_host"
    /\ fn_args.offset > 0
    /\ fn_args.row = fn_args.offset + fn_args.area.height - 3
    /\ fn_ret = <<fn_args.area.x + 1 + fn_args.col, fn_args.area.y + fn_args.area.height - 2>>

\* C22: for every button code, column and row the bytes sent for a mouse
\* report are exactly the six bytes ESC, '[', 'M', b, cx, cy with
\* b = button_code + 32, cx = min(col + 33, 255) and cy = min(row + 33, 255).
C22_MouseReportBytes ==
    pc = "return" =>
        input_calls =
            <<(<<ESC, 91, 77, fn_args.button + 32,
                 Min(fn_args.col + 33, 255), Min(fn_args.row + 33, 255)>>)>>

\* The keys of the encoding table: a character other than the quit chord,
\* Enter, Backspace, Tab, Esc and the arrows.
EncodedKeyCodes ==
    {"Char", "Enter", "Backspace", "Tab", "Esc", "Up", "Down", "Right",
     "Left"}

IsEncodedKey(key) ==
    /\ key.code \in EncodedKeyCodes
    /\ ~(key.code = "Char" /\ key.ch = 122 /\ key.ctrl)

\* The encoding table: 'z' is one byte in UTF-8, the syllable U+D55C is
\* ED 95 9C.
EncodingTable(key) ==
    CASE key.code = "Char" /\ key.ch = 122 -> <<122>>
      [] key.code = "Char" /\ key.ch = 54620 -> <<237, 149, 156>>
      [] key.code = "Enter" -> <<13>>
      [] key.code = "Backspace" -> <<127>>
      [] key.code = "Tab" -> <<9>>
      [] key.code = "Esc" -> <<27>>
      [] key.code = "Up" -> <<27, 91, 65>>
      [] key.code = "Down" -> <<27, 91, 66>>
      [] key.code = "Right" -> <<27, 91, 67>>
      [] key.code = "Left" -> <<27, 91, 68>>

\* C23: each press of a printable character, Enter, Backspace, Tab, Esc or
\* an arrow key results in exactly one input() call carrying exactly the
\* bytes of the encoding table, and changes no selection, scroll or quit
\* gate state.
C23_KeyEncoding ==
    /\ []((pc = "check" /\ event.type = "key" /\ IsEncodedKey(event.key))
            => input_calls = <<EncodingTable(event.key)>>)
    /\ [][(pc = "poll" /\ event'.type = "key" /\ IsEncodedKey(event'.key))
            => UNCHANGED <<text_selection, is_dragging, scroll_offset,
                           should_quit, quit_confirm_count>>]_vars

\* The three bytes of a Hangul syllable have been sent while a selection
\* was active and the view scrolled.
C23_Witness ==
    /\ pc = "check"
    /\ event.type = "key"
    /\ event.key.code = "Char"
    /\ input_calls = <<(<<237, 149, 156>>)>>
    /\ text_selection.is_active
    /\ scroll_offset > 0

\* A Terminal::input call of the current iteration has failed.
InputFailed == \E i \in 1..Len(input_results) : input_results[i] = "Err"

\* C24: when input() fails because the emulator I/O thread has exited, the
\* bytes are dropped, the key or mouse handler returns success, no UI state
\* is modified beyond what the event changes anyway (an event that sends
\* bytes changes none), and the UI loop goes on to its quit check and, unless
\* asked to quit, to the next frame.
C24_InputAfterClosure ==
    /\ [](InputFailed =>
            /\ pc = "check"
            /\ handler_result = "Ok"
            /\ app_result = "none")
    /\ [][(pc = "poll" /\ ~io_alive /\ input_calls' # <<>>) =>
            /\ input_results' = [i \in 1..Len(input_calls') |-> "Err"]
            /\ pc' = "check"
            /\ UNCHANGED appVars]_vars
    /\ [][(/\ pc = "check" /\ InputFailed /\ pc' # pc
            /\ ~should_quit /\ ~shutdown_signal) => pc' = "draw"]_vars

\* A click's cursor escape has been sent after the emulator had closed.
C24_Witness ==
    /\ pc = "check"
    /\ InputFailed
    /\ event.type = "mouse"
    /\ handler_result = "Ok"
    /\ ~io_alive

\* C25: the UI thread holds the grid mutex only while copying a snapshot or
\* reading the cursor; it never holds it while calling input(), while the
\* host backend draws or while blocked in the input poll, so the I/O thread
\* that waits for the mutex always gets it in the end.
C25_LockDiscipline ==
    /\ [](term_lock = "ui" => pc \in LockedPcs)
    /\ [](pc \in {"input_send", "flush", "poll_wait"} => term_lock # "ui")
    /\ (io_pc = "waiting" ~> term_lock = "io")

\* The I/O thread runs an emulator step while the UI thread sends input.
C25_Witness ==
    /\ pc = "input_send"
    /\ term_lock = "io"
    /\ io_pc = "step"

\* C26: once the shutdown flag has been set by the signal thread, or the
\* exit flag by the quit gate, the UI loop leaves the loop at the quit check
\* that ends the iteration: from then on the loop only goes from the draw to
\* the poll and from the poll to the check, so at most one further draw and
\* one poll happen.  The signal thread changes nothing but the shutdown flag.
C26_ShutdownResponse ==
    /\ [][(/\ pc = "check" /\ pc' # pc
            /\ (should_quit \/ shutdown_signal)) => pc' \notin LoopPcs]_vars
    /\ [][(/\ (should_quit \/ shutdown_signal)
            /\ pc \in LoopPcs /\ pc' \in LoopPcs) =>
               /\ should_quit' \/ shutdown_signal'
               /\ \/ pc' = pc
                  \/ pc = "draw" /\ pc' = "poll"
                  \/ pc = "poll" /\ pc' = "check"]_vars
    /\ [][shutdown_signal' # shutdown_signal =>
            /\ shutdown_signal'
            /\ UNCHANGED <<pc, hostVars, mainVars, appVars, iterVars,
                           io_alive, mouse_mode, title_quit_status,
                           events_rx>>]_vars

\* The loop has been left on a signal that arrived while no quit was asked
\* for at the keyboard.
C26_Witness ==
    /\ pc = "restore"
    /\ app_result = "ok"
    /\ shutdown_signal
    /\ restore_result = "none"

\* C27: during render with an active selection a cell at (row, col) of the
\* snapshot is drawn with foreground and background swapped if and only if
\* (row, col) lies within the normalized selection range in row-major
\* order, both endpoints included; with no active selection no cell is
\* swapped.
C27_Highlighting ==
    pc = "return" =>
        /\ Len(fn_ret) = Len(fn_args.line)
        /\ \A col \in 0..(Len(fn_args.line) - 1) :
              LET cell == [row |-> fn_args.row_idx, col |-> col]
              IN  fn_ret[col + 1] =
                     /\ fn_args.sel.is_active
                     /\ LexLeq(RangeStart(fn_args.sel), cell)
                     /\ LexLeq(cell, RangeEnd(fn_args.sel))

\* The first row of a selection dragged upwards over two rows has been
\* rendered: its first cell plain, its last cell swapped.
C27_Witness ==
    /\ pc = "return"
    /\ fn_args.sel.is_active
    /\ fn_args.sel.start_row > fn_args.sel.end_row
    /\ fn_args.row_idx = fn_args.sel.end_row
    /\ Len(fn_ret) = MaxLineLen
    /\ ~fn_ret[1]
    /\ fn_ret[MaxLineLen]

\* pane inner width
InnerWidth == Max(0, terminal_area.width - 2)

\* C28: after any pane resize (a frame has been drawn on the resized host
\* terminal) the anchor and head columns of an active selection are both
\* less than the new pane inner width.
C28_SelectionReclampedOnResize ==
    (pc \in {"poll", "check"} /\ text_selection.is_active) =>
        /\ text_selection.start_col < InnerWidth
        /\ text_selection.end_col < InnerWidth

\* The wide characters of a grid line, and the cells of the line that are
\* not spacers, in order.
WideCount(line) == Cardinality({i \in 1..Len(line) : line[i].wide})

RECURSIVE WithoutSpacers(_)
WithoutSpacers(line) ==
    IF line = <<>> THEN <<>>
    ELSE IF Head(line).spacer THEN WithoutSpacers(Tail(line))
    ELSE <<Head(line).c>> \o WithoutSpacers(Tail(line))

\* Every WIDE_CHAR cell of the line is followed by a WIDE_CHAR_SPACER cell.
WideCellsHaveSpacers(line) ==
    \A i \in 1..Len(line) :
        line[i].wide => (i < Len(line) /\ line[i + 1].spacer)

\* C29: for a grid row in which every WIDE_CHAR cell is followed by a
\* WIDE_CHAR_SPACER cell the reconstructed string holds each wide codepoint
\* once and no spacer, so a row with k wide characters has length
\* columns - k; trailing whitespace is preserved.
C29_WideRowReconstruction ==
    /\ pc = "return" =>
          \A r \in 1..Len(fn_args) :
              WideCellsHaveSpacers(fn_args[r]) =>
                  /\ fn_ret[r] = WithoutSpacers(fn_args[r])
                  /\ Len(fn_ret[r]) = NumCols - WideCount(fn_args[r])
                  /\ (fn_args[r][NumCols].c = 32 /\ ~fn_args[r][NumCols].spacer)
                        => fn_ret[r][Len(fn_ret[r])] = 32
    /\ pc = "measured" =>
          \A r \in 1..Len(fn_args) :
              fn_ret[r] = NumCols - WideCount(fn_args[r])

\* A row with one wide character at column 3 and letters elsewhere has
\* been reconstructed to columns - 1 characters.
C29_Witness ==
    /\ pc = "return"
    /\ WideCount(fn_args[1]) = 1
    /\ fn_args[1][4].wide
    /\ fn_args[1][NumCols].c # 32
    /\ Len(fn_ret[1]) = NumCols - 1
    /\ fn_ret[1][4] = Syllable

\* C30: launching the application with no arguments starts the system shell
\* with its working directory equal to the current working directory of the
\* launching process.
C30_ShellStartsInLaunchDirectory ==
    pc = "return" =>
        /\ fn_ret.program =
              IF fn_args.shell_var # None THEN fn_args.shell_var[1]
              ELSE "/bin/sh"
        /\ fn_ret.cwd = fn_args.cwd

\* The position less one of a character in a table of the composer.
JamoIndex(table, ch) == (CHOOSE i \in 1..Len(table) : table[i] = ch) - 1

IsIn(table, ch) == \E i \in 1..Len(table) : table[i] = ch

\* C31: starting from an empty composer, a leading consonant, then a vowel,
\* then a consonant that is a valid trailing consonant return Composing at
\* each of the three steps, and get_current_syllable then returns the
\* syllable with code 0xAC00 + l * 588 + v * 28 + t.
C31_HangulComposition ==
    (/\ pc = "read"
     /\ Len(fn_args.typed) = 3
     /\ IsIn(LEADING_CONSONANTS, fn_args.typed[1])
     /\ IsIn(VOWELS, fn_args.typed[2])
     /\ IsIn(Tail(TRAILING_CONSONANTS), fn_args.typed[3])) =>
        /\ \A i \in 1..3 : fn_ret[i].tag = "Composing"
        /\ fn_ret[4].a =
              <<44032 + JamoIndex(LEADING_CONSONANTS, fn_args.typed[1]) * 588
                  + JamoIndex(VOWELS, fn_args.typed[2]) * 28
                  + JamoIndex(TRAILING_CONSONANTS, fn_args.typed[3])>>

\* The jamo a character stands for: a composed syllable is its leading
\* consonant, its vowel and its trailing consonant if it has one; any other
\* character is itself.
JamoOf(ch) ==
    IF ch >= 44032 /\ ch < 44032 + 19 * 588
    THEN LET s == ch - 44032
             l == s \div 588
             v == (s % 588) \div 28
             t == s % 28
         IN  <<LEADING_CONSONANTS[l + 1], VOWELS[v + 1]>>
               \o (IF t > 0 THEN <<TRAILING_CONSONANTS[t + 1]>> ELSE <<>>)
    ELSE <<ch>>

\* The jamo of what an Option carries.
JamoOfOption(o) == IF o = <<>> THEN <<>> ELSE JamoOf(o[1])

RECURSIVE JamoOutput(_)
\* The jamo of everything a sequence of results gave out, in order.
JamoOutput(results) ==
    IF results = <<>> THEN <<>>
    ELSE JamoOfOption(Head(results).a) \o JamoOfOption(Head(results).b)
           \o JamoOutput(Tail(results))

\* C32: the composer loses no input.  When only a leading consonant is
\* pending and another leading consonant arrives, the pending consonant is
\* carried in the CompletedWithNew result; and over any sequence of
\* input_jamo calls followed by flush, every character given is given out,
\* directly or inside a completed syllable.
C32_ComposerLosesNoInput ==
    /\ (/\ pc = "composing"
        /\ Len(fn_args.typed) = 2
        /\ IsIn(LEADING_CONSONANTS, fn_args.typed[1])
        /\ IsIn(LEADING_CONSONANTS, fn_args.typed[2])) =>
           fn_ret[2] = [tag |-> "CompletedWithNew",
                        a |-> <<fn_args.typed[1]>>, b |-> <<>>]
    /\ pc = "flushed" => JamoOutput(fn_ret) = fn_args.typed

\* C33: in every reachable state, is_dragging = true implies that the
\* selection is active.
C33_DraggingImpliesActive == is_dragging => text_selection.is_active

\* C34: the cursor position and the grid snapshot of one frame come from the
\* same grid state: between the return of get_renderable_cursor and the
\* taking of the mutex by get_renderable_content the I/O thread runs no
\* emulator step.
C34_CursorAndSnapshotFromOneGrid ==
    [][pc = "content_lock" => term_lock' # "io"]_vars

\* C35: whenever the caret is placed (not parked at (0, 0)), its host
\* coordinate lies strictly inside the pane interior, for every cursor
\* column the emulator can report and every pane size.
C35_CaretInsideInterior ==
    (pc = "return" /\ fn_args.fn = "grid_to_host" /\ fn_ret # <<0, 0>>) =>
        /\ fn_ret[1] > fn_args.area.x
        /\ fn_ret[1] < fn_args.area.x + fn_args.area.width - 1
        /\ fn_ret[2] > fn_args.area.y
        /\ fn_ret[2] < fn_args.area.y + fn_args.area.height - 1

\* C37: coordinate arithmetic never underflows or wraps: for every pane
\* rectangle the layout can produce, a pane of no width or height at the
\* origin included, and every host mouse point and scroll offset,
\* mouse_to_terminal_coords computes no value outside u16 and returns None
\* for a pane with no interior.
C37_CoordinatesNeverWrap ==
    (pc = "return" /\ fn_args.fn = "host_to_grid") =>
        /\ ~mouse_to_terminal_coords_Wraps(fn_args.area, fn_args.offset,
                                           fn_args.col, fn_args.row)
        /\ (fn_args.area.width <= 2 \/ fn_args.area.height <= 2) =>
               fn_ret = None

\* C36: the selection copy never indexes out of range: for every stored
\* selection (rows at or beyond the snapshot length and columns at or
\* beyond a row's length included) and every snapshot, every slice
\* line_chars[start_pos..end_pos] taken has start_pos <= end_pos <= len.
C36_CopySlicesInRange ==
    pc = "return" =>
        \A i \in 1..Len(fn_ret.slices) :
            /\ fn_ret.slices[i].start_pos <= fn_ret.slices[i].end_pos
            /\ fn_ret.slices[i].end_pos <= fn_ret.slices[i].len

\* A selection that begins beyond the end of its first row and ends on a
\* row the snapshot does not have, beyond the length of every row, has been
\* copied: the first row was passed over and the row after it sliced whole.
C36_Witness ==
    /\ pc = "return"
    /\ fn_args.sel.end_row >= Len(fn_args.lines)
    /\ Len(fn_args.lines) = 2
    /\ fn_args.sel.start_row = 0
    /\ fn_args.sel.start_col >= Len(fn_args.lines[1])
    /\ Len(fn_args.lines[1]) > 0
    /\ fn_ret.slices = <<[row |-> 1, start_pos |-> 0,
                          end_pos |-> Len(fn_args.lines[2]),
                          len |-> Len(fn_args.lines[2])]>>
    /\ fn_ret.slices[1].len > 0

=============================================================================
